---- MODULE Spec2Model ----
\* Verification model of obsidian-github-web-publish:
\*   - FileWatcher.handleFileMove (folder-transition interpreter),
\*   - GitHubClient.request (retry loop) and the client's branch operations,
\*   - Publisher.publish / Publisher.unpublish (workflow orchestration).
\*
\* Path strings are modelled as sequences of their '/'-separated segments, so
\* that `path.startsWith(root + '/')` is "root is a proper prefix of path".
\* Error messages are modelled as sequences of tokens, so that a regex match or
\* an `includes` on the message is a search in the sequence.
EXTENDS Integers, Sequences, FiniteSets, TLC

VARIABLES
    \* ---- FileWatcher (src/src/publishing/watcher.ts)
    sites,        \* plugin.settings.sites: sequence of SiteConfig
    moveFile,     \* the `file` argument of the last rename event
    moveOldPath,  \* the `oldPath` argument of the last rename event
    action,       \* the PublishAction handleFileMove returned for it
    \* ---- GitHubClient.request (src/src/github/client.ts)
    reqPc,        \* position in the retry loop
    attempt,      \* loop variable `attempt`
    httpCalls,    \* number of requestUrl() calls made by this request
    sleeps,       \* number of sleep() calls made by this request
    lastResp,     \* what requestUrl() did on the last attempt
    lastError,    \* local `lastError` (message tokens), <<>> when undefined
    retryable,    \* attempts so far that failed with a retryable error
    \* ---- remote repository, as seen through the REST API
    branches,     \* names of the branches that exist besides the base branch
    prs,          \* pull requests: sequence of [head, state, labels]
    leftover,     \* branches left behind by an invocation that failed after
                  \* creating them (history of the remote state)
    \* ---- Publisher (src/unnamed/part_005) and the client calls it makes
    token,        \* settings.githubAuth?.token is truthy
    run,          \* the current publish()/unpublish() invocation
    callLog,      \* client methods the current invocation has called, in order
    runs,         \* invocations started so far
    \* ---- GitHubClient.ensureFreshBranch called on its own
    efb,          \* the current ensureFreshBranch() invocation
    \* ---- a second publish()/unpublish() invocation in flight
    conc,         \* the invocation that is waiting at an await while the one
                  \* in `run` executes, with its call log
    \* ---- the plugin's handlers (src/src/main.ts)
    hp,           \* handlePublish: what it did after publisher.publish ended
    \* ---- device-flow login (src/unnamed/part_003)
    oauth,        \* the current waitForAuthorization() invocation
    \* ---- the live URL of a published post
    url,          \* the inputs of one derivation and the URL derived
    \* ---- slugify applied to a name and to its own result
    sl            \* the name, slugify(name) and slugify(slugify(name))

watchVars  == <<sites, moveFile, moveOldPath, action>>
reqVars    == <<reqPc, attempt, httpCalls, sleeps, lastResp, lastError, retryable>>
remoteVars == <<branches, prs, leftover>>
pubVars    == <<token, run, callLog, runs>>
extVars    == <<oauth, url, sl>>
vars       == <<watchVars, reqVars, remoteVars, pubVars, efb, conc, hp, extVars>>

\* ===================================================================
\* FileWatcher
\* ===================================================================

\* SITE_FOLDERS: key -> folder name
SITE_FOLDERS ==
    [UNPUBLISHED |-> "unpublished",
     READY_TO_PUBLISH_SCHEDULED |-> "ready-to-publish-scheduled",
     READY_TO_PUBLISH_NOW |-> "ready-to-publish-now",
     PUBLISHED |-> "published"]

FolderKeys == DOMAIN SITE_FOLDERS

\* null of `keyof typeof SITE_FOLDERS | null` and of `SiteConfig | null`
NULL == "null"

\* path.startsWith(prefix + '/') on segment sequences
StartsWithDir(path, prefix) ==
    /\ Len(path) > Len(prefix)
    /\ SubSeq(path, 1, Len(prefix)) = prefix

\* getSiteFolder(path, siteVaultPath)
getSiteFolder(path, siteVaultPath) ==
    IF ~StartsWithDir(path, siteVaultPath)
    THEN NULL
    ELSE LET firstSegment == path[Len(siteVaultPath) + 1]
         IN  IF firstSegment = SITE_FOLDERS.UNPUBLISHED THEN "UNPUBLISHED"
             ELSE IF firstSegment = SITE_FOLDERS.READY_TO_PUBLISH_SCHEDULED
                  THEN "READY_TO_PUBLISH_SCHEDULED"
             ELSE IF firstSegment = SITE_FOLDERS.READY_TO_PUBLISH_NOW
                  THEN "READY_TO_PUBLISH_NOW"
             ELSE IF firstSegment = SITE_FOLDERS.PUBLISHED THEN "PUBLISHED"
             ELSE NULL

\* the test of the loop body of findSiteForPath
SiteMatches(path, site) ==
    StartsWithDir(path, site.vaultPath) \/ path = site.vaultPath

\* findSiteForPath(path, sites): index of the first matching site, 0 for null
findSiteForPath(path, ss) ==
    IF \E i \in 1..Len(ss) : SiteMatches(path, ss[i])
    THEN CHOOSE i \in 1..Len(ss) :
            /\ SiteMatches(path, ss[i])
            /\ \A j \in 1..(i - 1) : ~SiteMatches(path, ss[j])
    ELSE 0

NoAction == [type |-> "none"]

\* a mutant: an old path in no named folder counts as any other origin
determineActionAnyOrigin(file, site, oldFolder, newFolder) ==
    IF newFolder = NULL THEN NoAction
    ELSE IF oldFolder = "PUBLISHED" /\ newFolder = "READY_TO_PUBLISH_SCHEDULED"
         THEN [type |-> "update", file |-> file, site |-> site, immediate |-> FALSE]
    ELSE IF oldFolder = "PUBLISHED" /\ newFolder = "READY_TO_PUBLISH_NOW"
         THEN [type |-> "update", file |-> file, site |-> site, immediate |-> TRUE]
    ELSE IF oldFolder = "PUBLISHED" /\ newFolder = "UNPUBLISHED"
         THEN [type |-> "unpublish", file |-> file, site |-> site]
    ELSE IF oldFolder = "READY_TO_PUBLISH_SCHEDULED" /\ newFolder = "UNPUBLISHED"
         THEN [type |-> "withdraw", file |-> file, site |-> site]
    ELSE IF newFolder = "READY_TO_PUBLISH_SCHEDULED"
         THEN [type |-> "schedule-publish", file |-> file, site |-> site]
    ELSE IF newFolder = "READY_TO_PUBLISH_NOW"
         THEN [type |-> "immediate-publish", file |-> file, site |-> site]
    ELSE NoAction

\* a mutant: the fresh-publish cases are tested before the moves out of
\* published/
determineActionPublishFirst(file, site, oldFolder, newFolder) ==
    IF oldFolder = NULL \/ newFolder = NULL THEN NoAction
    ELSE IF newFolder = "READY_TO_PUBLISH_SCHEDULED"
         THEN [type |-> "schedule-publish", file |-> file, site |-> site]
    ELSE IF newFolder = "READY_TO_PUBLISH_NOW"
         THEN [type |-> "immediate-publish", file |-> file, site |-> site]
    ELSE IF oldFolder = "PUBLISHED" /\ newFolder = "UNPUBLISHED"
         THEN [type |-> "unpublish", file |-> file, site |-> site]
    ELSE IF oldFolder = "READY_TO_PUBLISH_SCHEDULED" /\ newFolder = "UNPUBLISHED"
         THEN [type |-> "withdraw", file |-> file, site |-> site]
    ELSE NoAction

\* FileWatcher.determineAction(file, site, oldFolder, newFolder)
determineAction(file, site, oldFolder, newFolder) ==
    IF oldFolder = NULL \/ newFolder = NULL THEN NoAction
    ELSE IF oldFolder = "PUBLISHED" /\ newFolder = "READY_TO_PUBLISH_SCHEDULED"
         THEN [type |-> "update", file |-> file, site |-> site, immediate |-> FALSE]
    ELSE IF oldFolder = "PUBLISHED" /\ newFolder = "READY_TO_PUBLISH_NOW"
         THEN [type |-> "update", file |-> file, site |-> site, immediate |-> TRUE]
    ELSE IF oldFolder = "PUBLISHED" /\ newFolder = "UNPUBLISHED"
         THEN [type |-> "unpublish", file |-> file, site |-> site]
    ELSE IF oldFolder = "READY_TO_PUBLISH_SCHEDULED" /\ newFolder = "UNPUBLISHED"
         THEN [type |-> "withdraw", file |-> file, site |-> site]
    ELSE IF newFolder = "READY_TO_PUBLISH_SCHEDULED"
         THEN [type |-> "schedule-publish", file |-> file, site |-> site]
    ELSE IF newFolder = "READY_TO_PUBLISH_NOW"
         THEN [type |-> "immediate-publish", file |-> file, site |-> site]
    ELSE NoAction

\* isTFile(file) && file.extension === 'md'
IsMarkdownFile(file) == file.isFile /\ file.extension = "md"

\* a mutant: a file whose old path is in no site is treated as coming from
\* the unpublished folder of the site it arrived in
handleFileMoveNoOrigin(file, oldPath, ss) ==
    IF ~IsMarkdownFile(file) THEN NoAction
    ELSE IF Len(ss) = 0 THEN NoAction
    ELSE LET oldSite == findSiteForPath(oldPath, ss)
             newSite == findSiteForPath(file.path, ss)
         IN  IF oldSite = 0 /\ newSite = 0 THEN NoAction
             ELSE LET site      == IF oldSite # 0 THEN ss[oldSite] ELSE ss[newSite]
                      oldFolder == IF oldSite # 0
                                   THEN getSiteFolder(oldPath, site.vaultPath)
                                   ELSE "UNPUBLISHED"
                      newFolder == IF newSite # 0
                                   THEN getSiteFolder(file.path, ss[newSite].vaultPath)
                                   ELSE NULL
                  IN  determineAction(file, site, oldFolder, newFolder)

\* a mutant: the intent carries the site of the new path when there is one
handleFileMoveNewSite(file, oldPath, ss) ==
    IF ~IsMarkdownFile(file) THEN NoAction
    ELSE IF Len(ss) = 0 THEN NoAction
    ELSE LET oldSite == findSiteForPath(oldPath, ss)
             newSite == findSiteForPath(file.path, ss)
         IN  IF oldSite = 0 THEN NoAction
             ELSE LET oldFolder == getSiteFolder(oldPath, ss[oldSite].vaultPath)
                      newFolder == IF newSite # 0
                                   THEN getSiteFolder(file.path, ss[newSite].vaultPath)
                                   ELSE NULL
                      site      == IF newSite # 0 THEN ss[newSite] ELSE ss[oldSite]
                  IN  determineAction(file, site, oldFolder, newFolder)

\* FileWatcher.handleFileMove(file, oldPath), reading plugin.settings.sites
handleFileMove(file, oldPath, ss) ==
    IF ~IsMarkdownFile(file) THEN NoAction
    ELSE IF Len(ss) = 0 THEN NoAction
    ELSE LET oldSite == findSiteForPath(oldPath, ss)
             newSite == findSiteForPath(file.path, ss)
         IN  IF oldSite = 0 THEN NoAction
             ELSE LET oldFolder == getSiteFolder(oldPath, ss[oldSite].vaultPath)
                      newFolder == IF newSite # 0
                                   THEN getSiteFolder(file.path, ss[newSite].vaultPath)
                                   ELSE NULL
                  IN  determineAction(file, ss[oldSite], oldFolder, newFolder)

\* ---- the rename events the model feeds to handleFileMove

\* extra directory levels allowed between a named folder and the document
MaxNest == 1

VaultW  == <<"www">>
Vault1  == <<"www", "site1">>
Vault2  == <<"www", "site2">>

SiteW == [name |-> "Umbrella", vaultPath |-> VaultW]
Site1 == [name |-> "Site 1",   vaultPath |-> Vault1]
Site2 == [name |-> "Site 2",   vaultPath |-> Vault2]

\* plugin.settings.sites: none, one, two disjoint sites in both orders, and a
\* site whose root contains another site's root, in both orders
SiteLists ==
    { <<>>, <<Site1>>, <<Site1, Site2>>, <<Site2, Site1>>,
      <<SiteW, Site1>>, <<Site1, SiteW>> }

FolderNames == { SITE_FOLDERS[k] : k \in FolderKeys }

RECURSIVE Nest(_)
Nest(n) == IF n = 0 THEN <<>> ELSE <<"sub">> \o Nest(n - 1)

\* what follows a root: nothing, the document itself, or a first-level
\* directory (one of the four names or another one) holding the document
PathTails ==
    { <<>>, <<"post">> } \cup
    { <<d>> \o Nest(n) \o <<"post">> :
        d \in FolderNames \cup {"drafts"}, n \in 0..MaxNest } \cup
    { <<d, "renamed">> : d \in FolderNames }

PathRoots == { <<"elsewhere">>, VaultW, Vault1, Vault2 }

Paths == { r \o t : r \in PathRoots, t \in PathTails }

\* a renamed TAbstractFile: a markdown file, another file, or a folder
Files ==
    { [path |-> p, isFile |-> TRUE, extension |-> e] :
        p \in Paths, e \in {"md", "png"} } \cup
    { [path |-> p, isFile |-> FALSE, extension |-> ""] : p \in Paths }

NoFile == [path |-> <<>>, isFile |-> FALSE, extension |-> ""]

\* no rename event handled yet
Pending == [type |-> "pending"]

WatchIdle ==
    /\ sites = <<>>
    /\ moveFile = NoFile
    /\ moveOldPath = <<>>
    /\ action = NoAction

\* vault.on('rename', (file, oldPath) => fileWatcher.handleFileMove(file, oldPath))
HandleFileMove ==
    /\ action = Pending
    /\ action' = handleFileMove(moveFile, moveOldPath, sites)
    /\ UNCHANGED <<sites, moveFile, moveOldPath>>
    /\ UNCHANGED <<reqVars, remoteVars, pubVars, efb, conc, hp, extVars>>

\* ===================================================================
\* GitHubClient.request: the retry loop
\* ===================================================================

DEFAULT_MAX_RETRIES == 3

\* message tokens: a word, or a number printed in decimal
W(w) == [t |-> "w", w |-> w]
N(n) == [t |-> "n", n |-> n]

\* a mutant: rate limiting (429) is not retried
isRetryableStatusCodeOnly5xx(status) == status >= 500 /\ status < 600

\* isRetryableStatusCode(status)
isRetryableStatusCode(status) ==
    status = 429 \/ (status >= 500 /\ status < 600)

\* String.prototype.toLowerCase on the words the model uses
toLowerCase(tok) ==
    IF tok.t # "w" THEN tok
    ELSE IF tok.w = "ECONNREFUSED" THEN W("econnrefused")
    ELSE IF tok.w = "Request" THEN W("request")
    ELSE IF tok.w = "Timeout" THEN W("timeout")
    ELSE IF tok.w = "Failed" THEN W("failed")
    ELSE IF tok.w = "GitHub API error" THEN W("github api error")
    ELSE IF tok.w = "GitHub API request failed:" THEN W("github api request failed:")
    ELSE IF tok.w = "Not Found" THEN W("not found")
    ELSE IF tok.w = "Unknown error" THEN W("unknown error")
    ELSE IF tok.w = "Reference already exists" THEN W("reference already exists")
    ELSE tok

LowerCase(msg) == [i \in 1..Len(msg) |-> toLowerCase(msg[i])]

\* String.prototype.includes: pattern occurs as a contiguous run of tokens
Includes(msg, pattern) ==
    \E i \in 1..(Len(msg) - Len(pattern) + 1) :
        SubSeq(msg, i, i + Len(pattern) - 1) = pattern

\* networkErrorPatterns of isRetryableError
networkErrorPatterns ==
    { <<W("timeout")>>, <<W("timed"), W("out")>>, <<W("econnreset")>>,
      <<W("econnrefused")>>, <<W("enetunreach")>>, <<W("enotfound")>>,
      <<W("socket"), W("hang"), W("up")>>, <<W("network"), W("error")>>,
      <<W("fetch"), W("failed")>>, <<W("failed"), W("to"), W("fetch")>> }

\* positions where /GitHub API error \((\d+)\)/ matches
StatusMatches(msg) ==
    { i \in 1..(Len(msg) - 1) :
        msg[i] = W("GitHub API error") /\ msg[i + 1].t = "n" }

Min(S) == CHOOSE x \in S : \A y \in S : x <= y

\* a mutant: the transient-failure signatures are looked for before the status
isRetryableErrorPatternsFirst(msg) ==
    \/ \E p \in networkErrorPatterns : Includes(LowerCase(msg), p)
    \/ /\ StatusMatches(msg) # {}
       /\ isRetryableStatusCode(msg[Min(StatusMatches(msg)) + 1].n)

\* isRetryableError(error), error an Error with this message
isRetryableError(msg) ==
    IF StatusMatches(msg) # {}
    THEN isRetryableStatusCode(msg[Min(StatusMatches(msg)) + 1].n)
    ELSE \E p \in networkErrorPatterns : Includes(LowerCase(msg), p)

\* ---- what requestUrl() can do on one attempt

Statuses == {200, 204, 301, 401, 404, 422, 429, 500, 503}

\* response.json of a non-2xx response: {message?, errors?}
ErrorBodies ==
    { [message |-> m, errors |-> e] :
        m \in { <<>>, <<W("Not Found")>>, <<W("Request"), W("timeout")>> },
        e \in { <<>>, <<<<W("Reference already exists")>>>> } }

\* messages of the errors requestUrl() throws for network problems
ThrownMessages ==
    { <<W("Request"), W("timeout")>>,
      <<W("ECONNREFUSED")>>,
      <<W("Failed"), W("to"), W("fetch")>>,
      <<W("net::ERR_CERT_AUTHORITY_INVALID")>>,
      <<W("GitHub API error"), W("(proxy)")>> }

Responses ==
    { [kind |-> "http", status |-> st, json |-> b] :
        st \in Statuses, b \in ErrorBodies } \cup
    { [kind |-> "throw", message |-> m] : m \in ThrownMessages }

NoResponse == [kind |-> "none"]

RECURSIVE JoinDetails(_)
\* error.errors.map(e => e.message || ...).join('; ')
JoinDetails(errs) ==
    IF Len(errs) = 0 THEN <<>>
    ELSE IF Len(errs) = 1 THEN errs[1]
    ELSE errs[1] \o <<W(";")>> \o JoinDetails(Tail(errs))

\* the message of the Error requestOnce throws for a non-2xx response
ApiErrorMessage(status, json) ==
    LET errorMessage == IF json.message # <<>> THEN json.message
                        ELSE <<W("Unknown error")>>
        withDetails  == IF Len(json.errors) > 0
                        THEN errorMessage \o <<W("-")>> \o JoinDetails(json.errors)
                        ELSE errorMessage
    IN  <<W("GitHub API error"), N(status), W(":")>> \o withDetails

\* GitHubClient.requestOnce for one behaviour of requestUrl():
\* [ok |-> TRUE] when it returns response.json, else the thrown message
requestOnce(resp) ==
    IF resp.kind = "http"
    THEN IF resp.status < 200 \/ resp.status >= 300
         THEN [ok |-> FALSE, message |-> ApiErrorMessage(resp.status, resp.json)]
         ELSE [ok |-> TRUE, message |-> <<>>]
    ELSE IF resp.message[1] = W("GitHub API error")
         THEN [ok |-> FALSE, message |-> resp.message]
         ELSE [ok |-> FALSE,
               message |-> <<W("GitHub API request failed:")>> \o resp.message]

\* a mutant: the loop runs one attempt too many
LoopContinuesOneMore(a) == a <= DEFAULT_MAX_RETRIES + 1

\* the loop condition `attempt <= DEFAULT_MAX_RETRIES`
LoopContinues(a) == a <= DEFAULT_MAX_RETRIES

\* the failures the retry policy names as retryable: 429, any 5xx, and the
\* transient network failures (timeout, connection refused, fetch failed)
TransientFailure(resp) ==
    \/ resp.kind = "http" /\ (resp.status = 429 \/ resp.status \in 500..599)
    \/ /\ resp.kind = "throw"
       /\ resp.message \in { <<W("Request"), W("timeout")>>,
                             <<W("ECONNREFUSED")>>,
                             <<W("Failed"), W("to"), W("fetch")>> }

ReqIdle ==
    /\ reqPc = "idle"
    /\ attempt = 0
    /\ httpCalls = 0
    /\ sleeps = 0
    /\ lastResp = NoResponse
    /\ lastError = <<>>
    /\ retryable = 0

\* GitHubClient.request has just been called: `for (let attempt = 0; ...`
ReqStarted ==
    /\ reqPc = "try"
    /\ attempt = 0
    /\ httpCalls = 0
    /\ sleeps = 0
    /\ lastResp = NoResponse
    /\ lastError = <<>>
    /\ retryable = 0

\* one iteration of the loop of GitHubClient.request, up to its next await,
\* for one behaviour of requestUrl(): `return await this.requestOnce(...)`
\* and, when that throws, the catch block
Attempt(resp) ==
    LET r == requestOnce(resp)
    IN  /\ lastResp' = resp
        /\ httpCalls' = httpCalls + 1
        /\ retryable' = IF TransientFailure(resp) THEN retryable + 1 ELSE retryable
        /\ IF r.ok
           THEN /\ reqPc' = "returned"
                /\ UNCHANGED <<attempt, lastError>>
           ELSE /\ lastError' = r.message
                /\ IF ~isRetryableError(r.message)
                   THEN reqPc' = "threw" /\ UNCHANGED attempt
                   ELSE IF attempt < DEFAULT_MAX_RETRIES
                   THEN reqPc' = "sleep" /\ UNCHANGED attempt
                   ELSE /\ attempt' = attempt + 1
                        /\ reqPc' = IF LoopContinues(attempt + 1)
                                    THEN "try" ELSE "threw"
        /\ UNCHANGED sleeps

\* an iteration of the loop, whatever requestUrl() does
RequestAttempt ==
    /\ reqPc = "try"
    /\ LoopContinues(attempt)
    /\ \E resp \in Responses : Attempt(resp)
    /\ UNCHANGED <<watchVars, conc, remoteVars, pubVars, efb, hp, extVars>>

\* `await sleep(delay)` returns and the loop goes to its next iteration
RequestSleep ==
    /\ reqPc = "sleep"
    /\ sleeps' = sleeps + 1
    /\ attempt' = attempt + 1
    /\ reqPc' = IF LoopContinues(attempt + 1) THEN "try" ELSE "threw"
    /\ UNCHANGED <<httpCalls, lastResp, lastError, retryable>>
    /\ UNCHANGED <<watchVars, conc, remoteVars, pubVars, efb, hp, extVars>>

\* ---- the POST /git/refs of createBranch: request() against a repository

\* the ref the request creates: refs/heads/publish/a
RefTarget == [prefix |-> "publish", slug |-> <<"a">>]

NoBody == [message |-> <<>>, errors |-> <<>>]

\* how the client sees an attempt that did not reach the repository: a
\* timeout, a refused connection, a failed fetch, a rate limit, a 500 or 503
Undelivered ==
    { [kind |-> "throw", message |-> <<W("Request"), W("timeout")>>],
      [kind |-> "throw", message |-> <<W("ECONNREFUSED")>>],
      [kind |-> "throw", message |-> <<W("Failed"), W("to"), W("fetch")>>],
      [kind |-> "http", status |-> 429, json |-> NoBody],
      [kind |-> "http", status |-> 500, json |-> NoBody],
      [kind |-> "http", status |-> 503, json |-> NoBody] }

\* how the client sees an attempt whose answer was lost on the way back: a
\* timeout, or a 500, 502 or 504 put in its place
Unanswered ==
    { [kind |-> "throw", message |-> <<W("Request"), W("timeout")>>],
      [kind |-> "http", status |-> 500, json |-> NoBody],
      [kind |-> "http", status |-> 502, json |-> NoBody],
      [kind |-> "http", status |-> 504, json |-> NoBody] }

\* the answers of the repository: 201 Created, and the 422 for a ref that
\* is already there
Created == [kind |-> "http", status |-> 201, json |-> NoBody]

RefExists ==
    [kind |-> "http", status |-> 422,
     json |-> [message |-> <<W("Reference already exists")>>, errors |-> <<>>]]

\* an iteration of the loop for `POST /repos/o/r/git/refs`: the request
\* reaches the repository or not, and a request that arrived is answered,
\* or its answer is lost on the way back and the client sees a timeout or
\* a gateway error; a request that arrives creates the ref if it is absent
CreateRefAttempt ==
    /\ reqPc = "try"
    /\ LoopContinues(attempt)
    /\ \/ \E resp \in Undelivered :
            Attempt(resp) /\ UNCHANGED branches
       \/ \E resp \in Unanswered \cup {IF RefTarget \in branches THEN RefExists
                                        ELSE Created} :
            Attempt(resp) /\ branches' = branches \cup {RefTarget}
    /\ UNCHANGED <<prs, leftover>>
    /\ UNCHANGED <<watchVars, conc, pubVars, efb, hp, extVars>>

\* ===================================================================
\* Strings of the Publisher: repository identifier and slug
\* (strings are sequences of one-character strings)
\* ===================================================================

RECURSIVE Split(_, _)
\* String.prototype.split(sep): the segments between the separators
Split(str, sep) ==
    IF \A i \in 1..Len(str) : str[i] # sep
    THEN <<str>>
    ELSE LET i == Min({ j \in 1..Len(str) : str[j] = sep })
         IN  <<SubSeq(str, 1, i - 1)>> \o Split(SubSeq(str, i + 1, Len(str)), sep)

\* a mutant: exactly two segments are required, as SiteConfigModal does
RepoOkExactlyTwo(githubRepo) ==
    LET parts == Split(githubRepo, "/")
    IN  Len(parts) = 2 /\ parts[1] # <<>> /\ parts[2] # <<>>

\* a mutant: only the owner is looked at
RepoOkOwnerOnly(githubRepo) ==
    Split(githubRepo, "/")[1] # <<>>

\* const [owner, repo] = site.githubRepo.split('/'); !( !owner || !repo )
RepoOk(githubRepo) ==
    LET parts == Split(githubRepo, "/")
    IN  /\ parts[1] # <<>>
        /\ Len(parts) >= 2
        /\ parts[2] # <<>>

IsDigit(c) == c \in {"0", "1", "2", "3", "4", "5", "6", "7", "8", "9"}

UpperLetters ==
    <<"A", "B", "C", "D", "E", "F", "G", "H", "I", "J", "K", "L", "M",
      "N", "O", "P", "Q", "R", "S", "T", "U", "V", "W", "X", "Y", "Z">>

LowerLetters ==
    <<"a", "b", "c", "d", "e", "f", "g", "h", "i", "j", "k", "l", "m",
      "n", "o", "p", "q", "r", "s", "t", "u", "v", "w", "x", "y", "z">>

\* .toLowerCase(), one character
Lower(c) ==
    IF \E i \in 1..Len(UpperLetters) : UpperLetters[i] = c
    THEN LowerLetters[CHOOSE i \in 1..Len(UpperLetters) : UpperLetters[i] = c]
    ELSE c

\* the character class [a-z0-9]
IsAlnum(c) ==
    \/ \E i \in 1..Len(LowerLetters) : LowerLetters[i] = c
    \/ IsDigit(c)

\* .replace(/\.md$/, '')
StripMd(str) ==
    IF Len(str) >= 3 /\ SubSeq(str, Len(str) - 2, Len(str)) = <<".", "m", "d">>
    THEN SubSeq(str, 1, Len(str) - 3)
    ELSE str

RECURSIVE CollapseNonAlnum(_)
\* .replace(/[^a-z0-9]+/g, '-')
CollapseNonAlnum(str) ==
    IF str = <<>> THEN <<>>
    ELSE IF IsAlnum(str[1]) THEN <<str[1]>> \o CollapseNonAlnum(Tail(str))
    ELSE IF Len(str) >= 2 /\ ~IsAlnum(str[2]) THEN CollapseNonAlnum(Tail(str))
    ELSE <<"-">> \o CollapseNonAlnum(Tail(str))

\* a mutant: only a leading hyphen is removed
TrimHyphensLeading(str) ==
    IF str # <<>> /\ str[1] = "-" THEN Tail(str) ELSE str

\* .replace(/^-|-$/g, '')
TrimHyphens(str) ==
    LET a == IF str # <<>> /\ str[1] = "-" THEN Tail(str) ELSE str
    IN  IF a # <<>> /\ a[Len(a)] = "-" THEN SubSeq(a, 1, Len(a) - 1) ELSE a

\* slugify(filename) of the Publisher
slugify(filename) ==
    LET stripped == StripMd(filename)
        lowered  == [i \in 1..Len(stripped) |-> Lower(stripped[i])]
    IN  TrimHyphens(CollapseNonAlnum(lowered))

\* ---- slugify on its own

\* longest name drawn from SlugAlphabet
MaxLen == 4

SlugAlphabet == {"A", "a", "0", "-", "!", ".", "m", "d"}

\* "My Post Title!", the basename of the test document
MyPostTitle ==
    <<"M", "y", " ", "P", "o", "s", "t", " ", "T", "i", "t", "l", "e", "!">>

\* the names slugify is applied to
SlugInputs ==
    UNION { [1..n -> SlugAlphabet] : n \in 0..MaxLen } \cup {MyPostTitle}

NoSlug == [pc |-> "idle", x |-> <<>>, once |-> <<>>, twice |-> <<>>]

SlugIdle == sl = NoSlug

SlugStarted == \E x \in SlugInputs : sl = [NoSlug EXCEPT !.pc = "input", !.x = x]

\* slugify(x)
SlugifyOnce ==
    /\ sl.pc = "input"
    /\ sl' = [sl EXCEPT !.pc = "once", !.once = slugify(sl.x)]
    /\ UNCHANGED <<watchVars, reqVars, remoteVars, pubVars, efb, conc, hp, oauth, url>>

\* slugify(slugify(x))
SlugifyTwice ==
    /\ sl.pc = "once"
    /\ sl' = [sl EXCEPT !.pc = "twice", !.twice = slugify(sl.once)]
    /\ UNCHANGED <<watchVars, reqVars, remoteVars, pubVars, efb, conc, hp, oauth, url>>

\* ===================================================================
\* GitHubClient methods, as far as the workflows observe them.
\* `out` is how the method's request() ended: "ok", or "error" when it threw
\* (a non-retryable failure, or a retryable one that outlasted the retries).
\* ===================================================================

ApiOutcomes == {"ok", "error"}

\* messages of the errors the model distinguishes
ErrRemote       == "GitHub API error"
ErrRefExists    == "GitHub API error (422): Reference already exists"
ErrNoAuth       == "Not authenticated with GitHub"
ErrValidation   == "Validation failed"
ErrInvalidRepo  == "Invalid repository format. Expected owner/repo"
ErrNoPost       == "No published post found matching slug in postsPath"
ErrVault        == "vault read failed"
ErrNullAuth     == "Cannot read properties of null (reading 'token')"

\* a mutant: files are written to a branch without the operation prefix
BranchNameBare(prefix, slug) == [prefix |-> "", slug |-> slug]

\* `publish/${slug}`, `unpublish/${slug}`
BranchName(prefix, slug) == [prefix |-> prefix, slug |-> slug]

\* GitHubClient.createBranch(branchName, baseBranch) on the branches `br`:
\* the ref is created unless a request fails; POST /git/refs of a ref that
\* exists is answered 422, which request() does not retry
createBranch(br, branchName, out) ==
    IF out = "error" THEN [threw |-> TRUE, error |-> ErrRemote, branches |-> br]
    ELSE IF branchName \in br
    THEN [threw |-> TRUE, error |-> ErrRefExists, branches |-> br]
    ELSE [threw |-> FALSE, error |-> "", branches |-> br \cup {branchName}]

\* GitHubClient.branchExists(branchName): every failure of getBranchSha,
\* the 404 of an absent branch included, is answered false
branchExists(br, branchName, out) ==
    IF out = "error" THEN FALSE ELSE branchName \in br

\* GitHubClient.deleteBranch(branchName): DELETE of an absent ref fails
deleteBranch(br, branchName, out) ==
    IF out = "error" \/ branchName \notin br
    THEN [threw |-> TRUE, branches |-> br]
    ELSE [threw |-> FALSE, branches |-> br \ {branchName}]

\* ===================================================================
\* Publisher
\* ===================================================================

\* publish()/unpublish() invocations per behaviour
MaxRuns == 2

\* site.githubRepo values: "o/r", "o/r/x", "o", "o/", "/r", ""
RepoStrings ==
    { <<"o", "/", "r">>, <<"o", "/", "r", "/", "x">>, <<"o">>,
      <<"o", "/">>, <<"/", "r">>, <<>> }

PubSites ==
    { [name |-> "Site 1", githubRepo |-> r, baseBranch |-> "main",
       postsPath |-> "_posts", assetsPath |-> "assets/images",
       scheduledLabel |-> "ready-to-publish"] : r \in RepoStrings }

NoSite == [name |-> "", githubRepo |-> <<>>, baseBranch |-> "",
           postsPath |-> "", assetsPath |-> "", scheduledLabel |-> ""]

\* file.basename of the documents: "A!" and "b"
Basenames == { <<"A", "!">>, <<"b">> }

\* the image embeds of a document, each with whether findAssetFile finds it
AssetLists ==
    { <<>>,
      <<[filename |-> "one.png", found |-> TRUE]>>,
      <<[filename |-> "gone.png", found |-> FALSE],
        [filename |-> "one.png", found |-> TRUE]>> }

DatePrefix == <<"2", "0", "2", "5", "-", "0", "1", "-", "1", "5", "-">>
DotMd == <<".", "m", "d">>
DotTxt == <<".", "t", "x", "t">>

\* what listFiles(site.postsPath, site.baseBranch) can return (names)
PostListings ==
    { <<>>,
      << DatePrefix \o <<"a">> \o DotMd >>,
      << DatePrefix \o <<"a">> \o DotMd, <<"a">> \o DotMd, <<"b">> \o DotMd >>,
      << <<"b">> \o DotTxt, DatePrefix \o <<"b">> \o DotMd,
         <<"a", "-", "b">> \o DotMd >> }

\* `assetPrefix ? `${assetPrefix}-${filenameOnly}` : filenameOnly`
uniqueFilename(assetPrefix, filenameOnly) ==
    IF assetPrefix = <<>> THEN filenameOnly
    ELSE assetPrefix \o <<"-">> \o filenameOnly

\* the images earlier publishes uploaded, each under the slug of its post
\* (`assetPrefix: slug`): one image "i" for each of the posts "a", "b", "a-b"
Uploads ==
    { [assetPrefix |-> p, filenameOnly |-> <<"i">>] :
        p \in { <<"a">>, <<"b">>, <<"a", "-", "b">> } }

\* what listFiles(site.assetsPath, branchName) can return (names)
AssetListings ==
    { <<>>,
      << uniqueFilename(<<"a">>, <<"i">>), uniqueFilename(<<"b">>, <<"i">>),
         uniqueFilename(<<"a", "-", "b">>, <<"i">>) >> }

\* nameWithoutExt.match(new RegExp(`^\\d{4}-\\d{2}-\\d{2}-${slug}$`))
MatchesDatePrefixed(str, slug) ==
    /\ Len(str) = 11 + Len(slug)
    /\ \A i \in {1, 2, 3, 4, 6, 7, 9, 10} : IsDigit(str[i])
    /\ \A i \in {5, 8, 11} : str[i] = "-"
    /\ SubSeq(str, 12, Len(str)) = slug

\* a mutant: only the exact name is matched
MatchesPostExact(name, slug) == StripMd(name) = slug

\* the filter predicate of matchingPosts
MatchesPost(name, slug) ==
    LET nameWithoutExt == StripMd(name)
    IN  nameWithoutExt = slug \/ MatchesDatePrefixed(nameWithoutExt, slug)

\* f.name.startsWith(`${slug}-`)
MatchesAsset(name, slug) ==
    /\ Len(name) >= Len(slug) + 1
    /\ SubSeq(name, 1, Len(slug) + 1) = slug \o <<"-">>

RECURSIVE Filter(_, _, _)
\* Array.prototype.filter with one of the two predicates above
Filter(list, slug, posts) ==
    IF list = <<>> THEN <<>>
    ELSE LET keep == IF posts THEN MatchesPost(list[1], slug)
                     ELSE MatchesAsset(list[1], slug)
         IN  (IF keep THEN <<list[1]>> ELSE <<>>) \o Filter(Tail(list), slug, posts)

\* PublishResult / UnpublishResult; errorSlug and errorPath are the slug and
\* the posts path a "no published post" message is built from
NoResult ==
    [success |-> FALSE, error |-> "", validationResult |-> FALSE,
     prNumber |-> 0, deletedFiles |-> <<>>, errorSlug |-> <<>>, errorPath |-> ""]

NoRun ==
    [op |-> "none", pc |-> "idle", file |-> <<>>, site |-> NoSite,
     flag |-> FALSE, fm |-> "unread", slug |-> <<>>, branch |-> BranchName("", <<>>),
     assets |-> <<>>, posts |-> <<>>, i |-> 0, pr |-> 0, stale |-> FALSE,
     deleted |-> <<>>, outcome |-> "none", result |-> NoResult,
     listed |-> FALSE, listing |-> <<>>, cleanupThrew |-> FALSE,
     loggedOutAt |-> "never"]

\* a mutant: the catch block reports the failure as a success
FailureReportedAsSuccess(r, msg) ==
    [r EXCEPT !.pc = "done", !.outcome = "resolved",
              !.result = [NoResult EXCEPT !.success = TRUE]]

\* `return { success: false, error }` (for unpublish with deletedFiles: [])
Failure(r, msg) ==
    [r EXCEPT !.pc = "done", !.outcome = "resolved",
              !.result = [NoResult EXCEPT !.error = msg]]

\* `return { success: true, ... }`
Success(r) ==
    [r EXCEPT !.pc = "done", !.outcome = "resolved",
              !.result = [NoResult EXCEPT !.success = TRUE, !.prNumber = r.pr,
                                          !.deletedFiles = r.deleted]]

\* the promise of the async method rejects: an exception left the method
Rejection(r, msg) ==
    [r EXCEPT !.pc = "done", !.outcome = "rejected",
              !.result = [NoResult EXCEPT !.error = msg]]

\* a mutant: the token check is left to the remote API
HasTokenUnchecked(tok) == TRUE

\* !( !this.settings.githubAuth?.token )
HasToken(tok) == tok

\* a mutant: an empty selection is not noticed
NoMatchIgnored(matchingPosts) == FALSE

\* `if (matchingPosts.length === 0)`
NoMatch(matchingPosts) == Len(matchingPosts) = 0

\* a mutant: unpublish leaves the pull request to a later merge
UnpublishAfterCreatePRUnmerged == "deleteBranch"

\* what unpublish does with the pull request it created: merge it
UnpublishAfterCreatePR == "merge"

\* a mutant: a failed branch deletion fails the workflow
AfterCleanupPropagates(r, threw) ==
    IF threw THEN Failure(r, ErrRemote) ELSE Success(r)

\* `try { await client.deleteBranch(branchName) } catch {}`, then
\* `return { success: true, ... }`
AfterCleanup(r, threw) == Success(r)

\* a mutant: the two arms of `if (immediate)` are swapped
AfterCreatePRSwapped(immediate) == IF immediate THEN "label" ELSE "merge"

\* `if (immediate) { merge ... } else { addLabels ... }`
AfterCreatePR(immediate) == IF immediate THEN "merge" ELSE "label"

NoBranch == BranchName("", <<>>)

\* an entry of callLog: the client method and the arguments that matter
Call(op) ==
    [op |-> op, branch |-> NoBranch, base |-> "", path |-> <<>>, pr |-> 0,
     label |-> "", threw |-> FALSE]

\* the client method was called and `threw` tells whether it threw
Log(entry, threw) == callLog' = Append(callLog, [entry EXCEPT !.threw = threw])

\* the invocation fails and leaves the branch it created on the remote
LeavesBranch == leftover' = leftover \cup ({run.branch} \cap branches)

RemoteIdle == branches = {} /\ prs = <<>> /\ leftover = {}

PubIdle == token = FALSE /\ run = NoRun /\ callLog = <<>> /\ runs = 0

\* no second invocation: calls are made one after the other
NoConc == [on |-> FALSE, run |-> NoRun, callLog |-> <<>>]

ConcIdle == conc = NoConc

\* the documents and sites invocations are made for; overlapping invocations
\* are explored for three documents, two of them with one slug, on one
\* well-formed site
ConcurrentBasenames == { <<"A", "!">>, <<"a">>, <<"b">> }

Documents == IF conc.on THEN ConcurrentBasenames ELSE Basenames

Repositories ==
    IF conc.on THEN { s \in PubSites : s.githubRepo = <<"o", "/", "r">> }
    ELSE PubSites

\* ---- handlePublish (src/src/main.ts): the part around publisher.publish

\* handlePublish has not been called, or handleUnpublish is running
NoHandler ==
    [pc |-> "none", folder |-> "", moveAfterPublish |-> FALSE,
     renameThrew |-> FALSE]

HandlerIdle == hp = NoHandler

\* the folder the listener calls handlePublish(file, site, immediate) for
ReadyFolder(immediate) ==
    IF immediate THEN SITE_FOLDERS.READY_TO_PUBLISH_NOW
    ELSE SITE_FOLDERS.READY_TO_PUBLISH_SCHEDULED

\* handlePublish waits at `await publisher.publish(file, site, immediate)`
\* for the document in `folder`
HandlerStarted(folder) ==
    [NoHandler EXCEPT !.pc = "awaiting", !.folder = folder]

\* a mutant: the document is moved after every successful publish
MovesAfterSuccessAlways(moveAfterPublish) == TRUE

\* `if (this.settings.moveAfterPublish)`
MovesAfterSuccess(moveAfterPublish) == moveAfterPublish

\* a mutant: the document is moved back after every failure
MovesBackAlways(validationResult) == TRUE

\* `if (result.validationResult && !result.validationResult.valid)`
MovesBack(validationResult) == validationResult

\* moveToPublished / moveToUnpublished: `try { await renameFile(file,
\* `${site.vaultPath}/<folder>/${file.name}`) } catch (e) { console.error }`
moveTo(target, folder, threw) == IF threw THEN folder ELSE target

\* ---- Publisher.publish(file, site, immediate)

\* the call, up to its first await (inside validator.validate); it is made
\* by handlePublish for a document that was moved into one of the two
\* ready-to-publish folders
PublishCall ==
    /\ run.pc \in {"idle", "done"}
    /\ hp.pc # "awaiting"
    /\ runs < MaxRuns
    /\ \E file \in Documents, site \in Repositories, immediate \in BOOLEAN :
        LET r0 == [NoRun EXCEPT !.op = "publish", !.file = file, !.site = site,
                                !.flag = immediate, !.outcome = "pending"]
        IN  /\ run' = IF ~HasToken(token)
                      THEN Failure(r0, ErrNoAuth)
                      ELSE [r0 EXCEPT !.pc = "validate"]
            /\ hp' = IF conc.on THEN hp ELSE HandlerStarted(ReadyFolder(immediate))
    /\ callLog' = <<>>
    /\ runs' = runs + 1
    /\ UNCHANGED <<token, remoteVars>>
    /\ UNCHANGED <<watchVars, conc, reqVars, efb, extVars>>

\* `await validator.validate(file)` ends (it reads the document with
\* vault.read outside any try block), then the repository check and
\* `new GitHubClient({ token: this.settings.githubAuth.token, ... })`, which
\* is outside the try block too and throws a TypeError when githubAuth has
\* become null in the meantime
PublishValidate ==
    /\ run.op = "publish" /\ run.pc = "validate"
    /\ \E v \in {"throws", "invalid", "valid"} :
        run' = CASE v = "throws"  -> Rejection(run, ErrVault)
                 [] v = "invalid" ->
                      [Failure([run EXCEPT !.fm = "invalid"], ErrValidation)
                          EXCEPT !.result.validationResult = TRUE]
                 [] v = "valid"   ->
                      IF ~RepoOk(run.site.githubRepo)
                      THEN Failure([run EXCEPT !.fm = "valid"], ErrInvalidRepo)
                      ELSE IF ~token
                      THEN Rejection([run EXCEPT !.fm = "valid"], ErrNullAuth)
                      ELSE [run EXCEPT !.fm = "valid", !.pc = "read"]
    /\ UNCHANGED <<token, callLog, runs, remoteVars>>
    /\ UNCHANGED <<watchVars, conc, reqVars, efb, hp, extVars>>

\* `await this.vault.read(file)` ends, then slug, content processing and
\* names (settings.addDatePrefix at its default)
PublishRead ==
    /\ run.op = "publish" /\ run.pc = "read"
    /\ \/ run' = Failure(run, ErrVault)
       \/ \E assets \in AssetLists :
            LET slug == slugify(run.file)
            IN  run' = [run EXCEPT !.slug = slug,
                                   !.branch = BranchName("publish", slug),
                                   !.assets = assets,
                                   !.pc = "createBranch"]
    /\ UNCHANGED <<token, callLog, runs, remoteVars>>
    /\ UNCHANGED <<watchVars, conc, reqVars, efb, hp, extVars>>

\* `await client.createBranch(branchName, site.baseBranch)` ends
PublishCreateBranch ==
    /\ run.op = "publish" /\ run.pc = "createBranch"
    /\ \E out \in ApiOutcomes :
        /\ LET res == createBranch(branches, run.branch, out)
               r1  == [run EXCEPT !.stale = run.branch \in leftover]
           IN  /\ branches' = res.branches
               /\ run' = IF res.threw THEN Failure(r1, res.error)
                          ELSE [r1 EXCEPT !.pc = "uploadPost"]
        /\ Log([Call("createBranch") EXCEPT !.branch = run.branch,
                                            !.base = run.site.baseBranch],
               createBranch(branches, run.branch, out).threw)
    /\ UNCHANGED <<token, runs, prs, leftover>>
    /\ UNCHANGED <<watchVars, conc, reqVars, efb, hp, extVars>>

\* `await client.createOrUpdateFile(targetPath, content, ..., branchName)` ends
PublishUploadPost ==
    /\ run.op = "publish" /\ run.pc = "uploadPost"
    /\ \E out \in ApiOutcomes :
        /\ IF out = "error"
           THEN run' = Failure(run, ErrRemote) /\ LeavesBranch
           ELSE /\ run' = IF run.assets = <<>> THEN [run EXCEPT !.pc = "createPR"]
                           ELSE [run EXCEPT !.pc = "asset", !.i = 1]
                /\ UNCHANGED leftover
        /\ Log([Call("createOrUpdateFile") EXCEPT
                    !.branch = run.branch, !.path = <<run.site.postsPath, run.slug>>],
               out = "error")
    /\ UNCHANGED <<token, runs, branches, prs>>
    /\ UNCHANGED <<watchVars, conc, reqVars, efb, hp, extVars>>

\* one iteration of `for (const asset of assets)`
PublishAsset ==
    /\ run.op = "publish" /\ run.pc = "asset"
    /\ LET asset == run.assets[run.i]
           next  == IF run.i = Len(run.assets) THEN [run EXCEPT !.pc = "createPR"]
                    ELSE [run EXCEPT !.i = run.i + 1]
       IN  IF ~asset.found
           THEN run' = next /\ UNCHANGED <<callLog, leftover>>
           ELSE \/ /\ run' = Failure(run, ErrVault)   \* vault.readBinary throws
                   /\ LeavesBranch
                   /\ UNCHANGED callLog
                \/ \E out \in ApiOutcomes :
                        /\ IF out = "error"
                           THEN run' = Failure(run, ErrRemote) /\ LeavesBranch
                           ELSE run' = next /\ UNCHANGED leftover
                        /\ Log([Call("createOrUpdateFile") EXCEPT
                                   !.branch = run.branch,
                                   !.path = <<run.site.assetsPath, asset.filename>>],
                               out = "error")
    /\ UNCHANGED <<token, runs, branches, prs>>
    /\ UNCHANGED <<watchVars, conc, reqVars, efb, hp, extVars>>

\* `await client.createPullRequest(prTitle, branchName, site.baseBranch, prBody)`
PublishCreatePR ==
    /\ run.op = "publish" /\ run.pc = "createPR"
    /\ \E out \in ApiOutcomes :
        /\ IF out = "error"
           THEN run' = Failure(run, ErrRemote) /\ LeavesBranch /\ UNCHANGED prs
           ELSE /\ prs' = Append(prs, [head |-> run.branch, state |-> "open",
                                       labels |-> {}])
                /\ run' = [run EXCEPT !.pr = Len(prs) + 1,
                                      !.pc = AfterCreatePR(run.flag)]
                /\ UNCHANGED leftover
        /\ Log([Call("createPullRequest") EXCEPT !.branch = run.branch,
                                                 !.base = run.site.baseBranch],
               out = "error")
    /\ UNCHANGED <<token, runs, branches>>
    /\ UNCHANGED <<watchVars, conc, reqVars, efb, hp, extVars>>

\* `await client.mergePullRequest(pr.number, prTitle)` ends; the repository
\* may delete the head branch of a merged pull request by itself
PublishMerge ==
    /\ run.op = "publish" /\ run.pc = "merge"
    /\ \E out \in ApiOutcomes :
        /\ IF out = "error"
           THEN run' = Failure(run, ErrRemote) /\ LeavesBranch
                /\ UNCHANGED <<prs, branches>>
           ELSE /\ prs' = [prs EXCEPT ![run.pr].state = "merged"]
                /\ \E auto \in BOOLEAN :
                    branches' = IF auto THEN branches \ {run.branch} ELSE branches
                /\ run' = [run EXCEPT !.pc = "deleteBranch"]
                /\ UNCHANGED leftover
        /\ Log([Call("mergePullRequest") EXCEPT !.pr = run.pr],
               out = "error")
    /\ UNCHANGED <<token, runs>>
    /\ UNCHANGED <<watchVars, conc, reqVars, efb, hp, extVars>>

\* `try { await client.deleteBranch(branchName) } catch {}` ends
PublishDeleteBranch ==
    /\ run.op = "publish" /\ run.pc = "deleteBranch"
    /\ \E out \in ApiOutcomes :
        /\ LET res == deleteBranch(branches, run.branch, out)
           IN  /\ branches' = res.branches
               /\ run' = AfterCleanup([run EXCEPT !.cleanupThrew = res.threw],
                                      res.threw)
        /\ Log([Call("deleteBranch") EXCEPT !.branch = run.branch],
               deleteBranch(branches, run.branch, out).threw)
    /\ UNCHANGED <<token, runs, prs, leftover>>
    /\ UNCHANGED <<watchVars, conc, reqVars, efb, hp, extVars>>

\* `await client.addLabels(pr.number, [site.scheduledLabel])` ends
PublishAddLabels ==
    /\ run.op = "publish" /\ run.pc = "label"
    /\ \E out \in ApiOutcomes :
        /\ IF out = "error"
           THEN run' = Failure(run, ErrRemote) /\ LeavesBranch /\ UNCHANGED prs
           ELSE /\ prs' = [prs EXCEPT ![run.pr].labels =
                                           @ \cup {run.site.scheduledLabel}]
                /\ run' = Success(run)
                /\ UNCHANGED leftover
        /\ Log([Call("addLabels") EXCEPT !.pr = run.pr,
                                         !.label = run.site.scheduledLabel],
               out = "error")
    /\ UNCHANGED <<token, runs, branches>>
    /\ UNCHANGED <<watchVars, conc, reqVars, efb, hp, extVars>>


\* ---- Publisher.unpublish(file, site, deleteAssets)

\* the call, up to its first await (client.listFiles)
UnpublishCall ==
    /\ run.pc \in {"idle", "done"}
    /\ hp.pc # "awaiting"
    /\ runs < MaxRuns
    /\ \E file \in Documents, site \in Repositories, deleteAssets \in BOOLEAN :
        LET r0   == [NoRun EXCEPT !.op = "unpublish", !.file = file,
                                  !.site = site, !.flag = deleteAssets,
                                  !.outcome = "pending"]
            slug == slugify(file)
        IN  run' = IF ~HasToken(token) THEN Failure(r0, ErrNoAuth)
                   ELSE IF ~RepoOk(site.githubRepo)
                   THEN Failure(r0, ErrInvalidRepo)
                   ELSE [r0 EXCEPT !.slug = slug,
                                   !.branch = BranchName("unpublish", slug),
                                   !.pc = "listPosts"]
    /\ callLog' = <<>>
    /\ runs' = runs + 1
    /\ hp' = NoHandler
    /\ UNCHANGED <<token, remoteVars>>
    /\ UNCHANGED <<watchVars, conc, reqVars, efb, extVars>>

\* `await client.listFiles(site.postsPath, site.baseBranch)` ends, then the
\* filter and the check for no match
UnpublishListPosts ==
    /\ run.op = "unpublish" /\ run.pc = "listPosts"
    /\ \E threw \in BOOLEAN :
        /\ IF threw
           THEN run' = Failure(run, ErrRemote)
           ELSE \E postsFiles \in PostListings :
                 LET matchingPosts == Filter(postsFiles, run.slug, TRUE)
                     r1 == [run EXCEPT !.listed = TRUE, !.listing = postsFiles,
                                       !.posts = matchingPosts]
                 IN  run' = IF NoMatch(matchingPosts)
                            THEN [Failure(r1, ErrNoPost) EXCEPT
                                     !.result.errorSlug = run.slug,
                                     !.result.errorPath = run.site.postsPath]
                            ELSE [r1 EXCEPT !.pc = "createBranch"]
        /\ Log([Call("listFiles") EXCEPT !.base = run.site.baseBranch,
                                         !.path = <<run.site.postsPath>>],
               threw)
    /\ UNCHANGED <<token, runs, remoteVars>>
    /\ UNCHANGED <<watchVars, conc, reqVars, efb, hp, extVars>>

\* `await client.createBranch(branchName, site.baseBranch)` ends
UnpublishCreateBranch ==
    /\ run.op = "unpublish" /\ run.pc = "createBranch"
    /\ \E out \in ApiOutcomes :
        /\ LET res == createBranch(branches, run.branch, out)
               r1  == [run EXCEPT !.stale = run.branch \in leftover]
           IN  /\ branches' = res.branches
               /\ run' = IF res.threw THEN Failure(r1, res.error)
                          ELSE [r1 EXCEPT !.i = 1,
                                          !.pc = IF Len(run.posts) > 0 THEN "deletePost"
                                                 ELSE IF run.flag THEN "listAssets"
                                                 ELSE "createPR"]
        /\ Log([Call("createBranch") EXCEPT !.branch = run.branch,
                                            !.base = run.site.baseBranch],
               createBranch(branches, run.branch, out).threw)
    /\ UNCHANGED <<token, runs, prs, leftover>>
    /\ UNCHANGED <<watchVars, conc, reqVars, efb, hp, extVars>>

\* one iteration of `for (const post of matchingPosts)`
UnpublishDeletePost ==
    /\ run.op = "unpublish" /\ run.pc = "deletePost"
    /\ LET post == <<run.site.postsPath, run.posts[run.i]>>
       IN  \E out \in ApiOutcomes :
                /\ IF out = "error"
                   THEN run' = Failure(run, ErrRemote) /\ LeavesBranch
                   ELSE /\ run' = [run EXCEPT
                                     !.deleted = Append(@, post),
                                     !.i = @ + 1,
                                     !.pc = IF run.i < Len(run.posts) THEN "deletePost"
                                            ELSE IF run.flag THEN "listAssets"
                                            ELSE "createPR"]
                        /\ UNCHANGED leftover
                /\ Log([Call("deleteFile") EXCEPT !.branch = run.branch,
                                                  !.path = post],
                       out = "error")
    /\ UNCHANGED <<token, runs, branches, prs>>
    /\ UNCHANGED <<watchVars, conc, reqVars, efb, hp, extVars>>

\* a mutant: the catch block around the asset deletion ends the invocation
AfterAssetsCatchEnds == "done"

\* `catch { console.debug(...) }` around the asset deletion: go on with the
\* pull request
AfterAssetsCatch == "createPR"

\* `await client.listFiles(site.assetsPath, branchName)` ends inside the
\* try block whose catch only logs
UnpublishListAssets ==
    /\ run.op = "unpublish" /\ run.pc = "listAssets"
    /\ \E threw \in BOOLEAN :
        /\ IF threw
           THEN run' = [run EXCEPT !.pc = AfterAssetsCatch]
           ELSE \E assetsFiles \in AssetListings :
                 LET matchingAssets == Filter(assetsFiles, run.slug, FALSE)
                 IN  run' = IF Len(matchingAssets) = 0
                            THEN [run EXCEPT !.pc = "createPR"]
                            ELSE [run EXCEPT !.assets = matchingAssets, !.i = 1,
                                             !.pc = "deleteAsset"]
        /\ Log([Call("listFiles") EXCEPT !.branch = run.branch,
                                         !.path = <<run.site.assetsPath>>],
               threw)
    /\ UNCHANGED <<token, runs, remoteVars>>
    /\ UNCHANGED <<watchVars, conc, reqVars, efb, hp, extVars>>

\* one iteration of `for (const asset of matchingAssets)`, inside the same try
UnpublishDeleteAsset ==
    /\ run.op = "unpublish" /\ run.pc = "deleteAsset"
    /\ LET asset == <<run.site.assetsPath, run.assets[run.i]>>
       IN  \E out \in ApiOutcomes :
                /\ run' = IF out = "error"
                          THEN [run EXCEPT !.pc = AfterAssetsCatch]
                          ELSE [run EXCEPT
                                  !.deleted = Append(@, asset),
                                  !.i = @ + 1,
                                  !.pc = IF run.i < Len(run.assets) THEN "deleteAsset"
                                         ELSE "createPR"]
                /\ Log([Call("deleteFile") EXCEPT !.branch = run.branch,
                                                  !.path = asset],
                       out = "error")
    /\ UNCHANGED <<token, runs, remoteVars>>
    /\ UNCHANGED <<watchVars, conc, reqVars, efb, hp, extVars>>

\* `await client.createPullRequest(prTitle, branchName, site.baseBranch, prBody)`
UnpublishCreatePR ==
    /\ run.op = "unpublish" /\ run.pc = "createPR"
    /\ \E out \in ApiOutcomes :
        /\ IF out = "error"
           THEN run' = Failure(run, ErrRemote) /\ LeavesBranch /\ UNCHANGED prs
           ELSE /\ prs' = Append(prs, [head |-> run.branch, state |-> "open",
                                       labels |-> {}])
                /\ run' = [run EXCEPT !.pr = Len(prs) + 1,
                                      !.pc = UnpublishAfterCreatePR]
                /\ UNCHANGED leftover
        /\ Log([Call("createPullRequest") EXCEPT !.branch = run.branch,
                                                 !.base = run.site.baseBranch],
               out = "error")
    /\ UNCHANGED <<token, runs, branches>>
    /\ UNCHANGED <<watchVars, conc, reqVars, efb, hp, extVars>>

\* `await client.mergePullRequest(pr.number, prTitle)` ends
UnpublishMerge ==
    /\ run.op = "unpublish" /\ run.pc = "merge"
    /\ \E out \in ApiOutcomes :
        /\ IF out = "error"
           THEN run' = Failure(run, ErrRemote) /\ LeavesBranch
                /\ UNCHANGED <<prs, branches>>
           ELSE /\ prs' = [prs EXCEPT ![run.pr].state = "merged"]
                /\ \E auto \in BOOLEAN :
                    branches' = IF auto THEN branches \ {run.branch} ELSE branches
                /\ run' = [run EXCEPT !.pc = "deleteBranch"]
                /\ UNCHANGED leftover
        /\ Log([Call("mergePullRequest") EXCEPT !.pr = run.pr],
               out = "error")
    /\ UNCHANGED <<token, runs>>
    /\ UNCHANGED <<watchVars, conc, reqVars, efb, hp, extVars>>

\* `try { await client.deleteBranch(branchName) } catch {}` ends
UnpublishDeleteBranch ==
    /\ run.op = "unpublish" /\ run.pc = "deleteBranch"
    /\ \E out \in ApiOutcomes :
        /\ LET res == deleteBranch(branches, run.branch, out)
           IN  /\ branches' = res.branches
               /\ run' = AfterCleanup([run EXCEPT !.cleanupThrew = res.threw],
                                      res.threw)
        /\ Log([Call("deleteBranch") EXCEPT !.branch = run.branch],
               deleteBranch(branches, run.branch, out).threw)
    /\ UNCHANGED <<token, runs, prs, leftover>>
    /\ UNCHANGED <<watchVars, conc, reqVars, efb, hp, extVars>>

\* ---- the token is removed: the Logout button of the settings tab, or
\* ---- validateToken at startup finding the stored token invalid

\* `this.settings.githubAuth = null`, while an invocation is at `pc` or none
\* is running
ClearToken ==
    /\ token
    /\ token' = FALSE
    /\ run' = [run EXCEPT !.loggedOutAt = run.pc]
    /\ UNCHANGED <<callLog, runs, remoteVars>>
    /\ UNCHANGED <<watchVars, conc, reqVars, efb, hp, extVars>>

\* ---- validateToken, called (and not awaited) by onload

\* what requestUrl() can do for GET /user: the login, a rejection of the
\* token, and two transient failures
StartupResponses ==
    { [kind |-> "http", status |-> st, json |-> NoBody] : st \in {200, 401, 503} }
    \cup { [kind |-> "throw", message |-> <<W("Failed"), W("to"), W("fetch")>>] }

\* getUsername(token) returns: requestUrl() did not throw and
\* `response.status !== 200` is false
getUsernameReturns(resp) == resp.kind = "http" /\ resp.status = 200

\* validateToken with a stored token, before the first workflow:
\* `try { await getUsername(token) ... } catch { this.settings.githubAuth = null ... }`
ValidateToken ==
    /\ token
    /\ runs = 0 /\ run = NoRun
    /\ lastResp = NoResponse
    /\ \E resp \in StartupResponses :
        /\ lastResp' = resp
        /\ token' = getUsernameReturns(resp)
        /\ run' = IF getUsernameReturns(resp) THEN run
                  ELSE [run EXCEPT !.loggedOutAt = "startup"]
    /\ UNCHANGED <<reqPc, attempt, httpCalls, sleeps, lastError, retryable>>
    /\ UNCHANGED <<callLog, runs, remoteVars>>
    /\ UNCHANGED <<watchVars, conc, efb, hp, extVars>>

\* ---- handlePublish after `await publisher.publish(...)`

\* the promise of publish() settles: a rejection leaves handlePublish at
\* once; otherwise the outcome is logged and, after a success, the document
\* is moved to published/ if the setting read at that moment is on, while
\* after a validation failure it is moved back to unpublished/
HandlePublishResult ==
    /\ hp.pc = "awaiting"
    /\ run.op = "publish" /\ run.pc = "done"
    /\ \E moveAfterPublish \in BOOLEAN, threw \in BOOLEAN :
        hp' = IF run.outcome = "rejected"
              THEN [hp EXCEPT !.pc = "rejected"]
              ELSE IF run.result.success
              THEN IF MovesAfterSuccess(moveAfterPublish)
                   THEN [hp EXCEPT !.pc = "done",
                                   !.moveAfterPublish = moveAfterPublish,
                                   !.renameThrew = threw,
                                   !.folder = moveTo(SITE_FOLDERS.PUBLISHED,
                                                     hp.folder, threw)]
                   ELSE [hp EXCEPT !.pc = "done",
                                   !.moveAfterPublish = moveAfterPublish]
              ELSE IF MovesBack(run.result.validationResult)
              THEN [hp EXCEPT !.pc = "done", !.renameThrew = threw,
                              !.folder = moveTo(SITE_FOLDERS.UNPUBLISHED,
                                                hp.folder, threw)]
              ELSE [hp EXCEPT !.pc = "done"]
    /\ UNCHANGED <<watchVars, reqVars, remoteVars, pubVars, efb, conc, extVars>>

\* ---- the rename listener of the plugin, for the events it starts no
\* ---- handler for

\* a mutant: the listener answers a withdraw intent with handleUnpublish
listenerHandlerWithdraw(act) ==
    IF act.type = "schedule-publish" \/ act.type = "immediate-publish"
    THEN "handlePublish"
    ELSE IF act.type = "unpublish" \/ act.type = "withdraw" THEN "handleUnpublish"
    ELSE IF act.type = "update" THEN "handleUpdate"
    ELSE "none"

\* the handler the listener starts for an action
listenerHandler(act) ==
    IF act.type = "schedule-publish" \/ act.type = "immediate-publish"
    THEN "handlePublish"
    ELSE IF act.type = "unpublish" THEN "handleUnpublish"
    ELSE IF act.type = "update" THEN "handleUpdate"
    ELSE "none"

\* the document `basename`.md in a folder of site 1
DocumentIn(folder, basename) ==
    [path |-> Vault1 \o <<folder, "doc">>, isFile |-> TRUE, extension |-> "md",
     basename |-> basename]

\* a document is moved into unpublished/ and the listener, having computed
\* the action, starts no handler: nothing else happens
RenameNotHandled ==
    /\ run.pc \in {"idle", "done"}
    /\ hp.pc # "awaiting"
    /\ moveFile = NoFile
    /\ \E basename \in Basenames, from \in FolderNames :
        LET file    == DocumentIn(SITE_FOLDERS.UNPUBLISHED, basename)
            oldPath == Vault1 \o <<from, "doc">>
            act     == handleFileMove(file, oldPath, sites)
        IN  /\ listenerHandler(act) = "none"
            /\ moveFile' = file
            /\ moveOldPath' = oldPath
            /\ action' = act
    /\ UNCHANGED sites
    /\ UNCHANGED <<reqVars, remoteVars, pubVars, efb, conc, hp, extVars>>

\* ---- the moves the handlers make themselves; each one raises a rename
\* ---- event that the listener hands to handleFileMove like any other

\* the folders a handler moves the document to: handlePublish to published/
\* after a success and to unpublished/ after a validation failure,
\* handleUpdate to published/ after a success and after a failure,
\* handleUnpublish nowhere
FollowUpTargets(handler) ==
    IF handler = "handlePublish"
    THEN {SITE_FOLDERS.PUBLISHED, SITE_FOLDERS.UNPUBLISHED}
    ELSE IF handler = "handleUpdate" THEN {SITE_FOLDERS.PUBLISHED}
    ELSE {}

\* `${site.vaultPath}/<folder>/${file.name}`
FollowUpPath(site, folder, file) ==
    site.vaultPath \o <<folder, file.path[Len(file.path)]>>

\* the handler started for `action` renames the document, which is still
\* where the triggering move put it, and the rename succeeds
FollowUpMove ==
    /\ action # Pending
    /\ hp = NoHandler
    /\ \E folder \in FollowUpTargets(listenerHandler(action)) :
        LET target == FollowUpPath(action.site, folder, moveFile)
        IN  /\ target # moveFile.path
            /\ moveOldPath' = moveFile.path
            /\ moveFile' = [moveFile EXCEPT !.path = target]
            /\ hp' = [NoHandler EXCEPT !.pc = "moved", !.folder = folder]
    /\ action' = Pending
    /\ UNCHANGED sites
    /\ UNCHANGED <<reqVars, remoteVars, pubVars, efb, conc, extVars>>

\* ---- overlapping invocations: the listener does not await its handlers
\* ---- (`void this.handlePublish(...)`), so while one invocation waits at an
\* ---- await another one runs

\* the invocation in `run` reaches an await (or has not started, or is done)
\* and the other invocation is the one that goes on
ConcSwitch ==
    /\ conc.on
    /\ run' = conc.run
    /\ callLog' = conc.callLog
    /\ conc' = [conc EXCEPT !.run = run, !.callLog = callLog]
    /\ UNCHANGED <<token, runs, remoteVars>>
    /\ UNCHANGED <<watchVars, reqVars, efb, hp, extVars>>

\* ===================================================================
\* Device-flow login (src/unnamed/part_003)
\* ===================================================================

\* polls after which the device code has expired
MaxPolls == 3

\* what pollForToken can resolve to: an access token, one of the error
\* codes (slow_down with or without `interval`), an unknown error code, a
\* body with neither a token nor an error; or the request throws
PollResponses ==
    { "access_token", "authorization_pending", "slow_down",
      "slow_down_interval", "expired_token", "access_denied", "other_error",
      "empty", "throws" }

\* `lastEval` is what the last call of onCancel returned, `evalsSincePoll`
\* the number of its calls since the last poll (or since the start)
NoOAuth ==
    [pc |-> "idle", hasOnCancel |-> FALSE, cancelled |-> FALSE, polls |-> 0,
     evalsSincePoll |-> 0, lastEval |-> "none", slowed |-> FALSE,
     code |-> "", outcome |-> "none"]

OAuthIdle == oauth = NoOAuth

\* waitForAuthorization(clientId, deviceCode, interval, expiresIn, onCancel)
\* is called, with or without onCancel, and is at the top of its loop
OAuthStarted ==
    \E hasOnCancel \in BOOLEAN :
        oauth = [NoOAuth EXCEPT !.pc = "loop", !.hasOnCancel = hasOnCancel,
                                !.outcome = "pending"]

\* `throw new OAuthError(message, code)` (or the error pollForToken threw)
OAuthThrow(o, code) == [o EXCEPT !.pc = "done", !.outcome = "threw", !.code = code]

\* a mutant: the value of onCancel is computed and not acted upon
ThrowsWhenCancelledNever(value) == FALSE

\* `if (onCancel?.()) { throw ... }`
ThrowsWhenCancelled(value) == value

\* the user closes the login modal: modal.isCancelled() is true from now on
ModalCancel ==
    /\ oauth.outcome = "pending"
    /\ ~oauth.cancelled
    /\ oauth' = [oauth EXCEPT !.cancelled = TRUE]
    /\ UNCHANGED <<watchVars, reqVars, remoteVars, pubVars, efb, conc, hp, url, sl>>

\* `while (Date.now() < expiresAt)`, then the cancel check, up to
\* `await sleep(currentInterval)`
OAuthLoopTest ==
    /\ oauth.pc = "loop"
    /\ \E expired \in (IF oauth.polls < MaxPolls THEN BOOLEAN ELSE {TRUE}) :
        IF expired
        THEN oauth' = OAuthThrow(oauth, "timeout")
        ELSE IF oauth.hasOnCancel
        THEN LET value == oauth.cancelled
                 o     == [oauth EXCEPT !.evalsSincePoll = @ + 1,
                                        !.lastEval = IF value THEN "true"
                                                     ELSE "false"]
             IN  oauth' = IF ThrowsWhenCancelled(value)
                          THEN OAuthThrow(o, "cancelled")
                          ELSE [o EXCEPT !.pc = "sleep"]
        ELSE oauth' = [oauth EXCEPT !.pc = "sleep"]
    /\ UNCHANGED <<watchVars, reqVars, remoteVars, pubVars, efb, conc, hp, url, sl>>

\* the sleep ends and pollForToken is called
OAuthSleep ==
    /\ oauth.pc = "sleep"
    /\ oauth' = [oauth EXCEPT !.pc = "poll", !.polls = @ + 1,
                              !.evalsSincePoll = 0]
    /\ UNCHANGED <<watchVars, reqVars, remoteVars, pubVars, efb, conc, hp, url, sl>>

\* a mutant: after a response that asks to keep polling the flow sleeps and
\* polls again without testing the expiry
AfterKeepPollingNoTest == "sleep"

\* `continue` (or the end of the loop body, for a response with neither a
\* token nor an error): back to `while (Date.now() < expiresAt)`
AfterKeepPolling == "loop"

\* `await pollForToken(clientId, deviceCode)` ends, then the switch
OAuthPoll ==
    /\ oauth.pc = "poll"
    /\ \E response \in PollResponses :
        oauth' =
            CASE response = "access_token" ->
                    [oauth EXCEPT !.pc = "done", !.outcome = "returned"]
              [] response \in {"authorization_pending", "empty"} ->
                    [oauth EXCEPT !.pc = AfterKeepPolling]
              [] response \in {"slow_down", "slow_down_interval"} ->
                    [oauth EXCEPT !.pc = AfterKeepPolling, !.slowed = TRUE]
              [] response \in {"expired_token", "access_denied", "other_error"} ->
                    OAuthThrow(oauth, response)
              [] response = "throws" -> OAuthThrow(oauth, "request")
    /\ UNCHANGED <<watchVars, reqVars, remoteVars, pubVars, efb, conc, hp, url, sl>>

\* ===================================================================
\* Live URL of a published post. The Publisher that derives it is not among
\* the sources (src/src/main.ts only reads `result.liveUrl`); the
\* derivation follows steps 6 and 12 of the publish workflow as specified.
\* ===================================================================

\* the frontmatter has no `date` / no `categories`, the site no base URL
NoDate == <<>>
NoUrl == <<>>

\* a mutant: the current date is used whatever the frontmatter says
resolveDateToday(fmDate, today) == today

\* step 6: an explicit frontmatter date, else today's date
resolveDate(fmDate, today) == IF fmDate # NoDate THEN fmDate ELSE today

RECURSIVE Join(_, _)
\* Array.prototype.join(sep)
Join(parts, sep) ==
    IF Len(parts) = 0 THEN <<>>
    ELSE IF Len(parts) = 1 THEN parts[1]
    ELSE parts[1] \o <<sep>> \o Join(Tail(parts), sep)

DotHtml == <<".", "h", "t", "m", "l">>

\* step 12: {baseUrl}/{category/}{yyyy}/{mm}/{dd}/{slug}.html, nothing
\* without a base URL
liveUrl(baseUrl, categories, date, slug) ==
    LET ymd      == Split(date, "-")
        category == IF Len(categories) = 0 THEN <<>> ELSE <<categories[1]>>
    IN  IF baseUrl = NoUrl THEN NoUrl
        ELSE Join(<<baseUrl>> \o category
                    \o <<ymd[1], ymd[2], ymd[3], slug \o DotHtml>>, "/")

\* dates in YYYY-MM-DD form: 2025-06-15, 2026-11-05 and 2026-11-06
Date1 == <<"2", "0", "2", "5", "-", "0", "6", "-", "1", "5">>
Date2 == <<"2", "0", "2", "6", "-", "1", "1", "-", "0", "5">>
Date3 == <<"2", "0", "2", "6", "-", "1", "1", "-", "0", "6">>

\* site.siteBaseUrl: not configured, or "u"
BaseUrls == { NoUrl, <<"u">> }

\* the `categories` of the frontmatter: absent, or ["a"]
CategoryLists == { <<>>, << <<"a">> >> }

NoDerivation ==
    [pc |-> "idle", basename |-> <<>>, fmDate |-> NoDate, today |-> NoDate,
     categories |-> <<>>, baseUrl |-> NoUrl, liveUrl |-> NoUrl]

UrlIdle == url = NoDerivation

\* a publish that succeeds reaches step 12
DerivationStarted ==
    \E basename \in ConcurrentBasenames, fmDate \in {NoDate, Date1, Date2},
       today \in {Date1, Date2, Date3}, categories \in CategoryLists,
       baseUrl \in BaseUrls :
        url = [NoDerivation EXCEPT !.pc = "derive", !.basename = basename,
                                   !.fmDate = fmDate, !.today = today,
                                   !.categories = categories,
                                   !.baseUrl = baseUrl]

\* steps 12 and 13: the live URL that the success result carries
DeriveLiveUrl ==
    /\ url.pc = "derive"
    /\ url' = [url EXCEPT !.pc = "done",
                          !.liveUrl = liveUrl(url.baseUrl, url.categories,
                                              resolveDate(url.fmDate, url.today),
                                              slugify(url.basename))]
    /\ UNCHANGED <<watchVars, reqVars, remoteVars, pubVars, efb, conc, hp, oauth, sl>>

ExtIdle == OAuthIdle /\ UrlIdle /\ SlugIdle

\* ===================================================================
\* GitHubClient.ensureFreshBranch(branchName, baseBranch)
\* ===================================================================

EfbBranchNames ==
    { BranchName("publish", <<"a">>), BranchName("publish", <<"b">>),
      BranchName("update", <<"a">>) }

NoEfb ==
    [pc |-> "idle", name |-> NoBranch, exists |-> FALSE, deleteThrew |-> FALSE,
     createThrew |-> FALSE, outcome |-> "none", log |-> <<>>]

EfbIdle == efb = NoEfb

\* a mutant: a failed deletion is propagated to the caller
AfterDeletePropagates(threw) == IF threw THEN "threw" ELSE "create"

\* `try { await this.deleteBranch(branchName) } catch {}`: go on either way
AfterDelete(threw) == "create"

\* the call, up to its first await (branchExists)
EfbCall ==
    /\ efb.pc \in {"idle", "done"}
    /\ \E name \in EfbBranchNames :
        efb' = [NoEfb EXCEPT !.pc = "branchExists", !.name = name,
                             !.outcome = "pending"]
    /\ UNCHANGED <<watchVars, conc, reqVars, remoteVars, pubVars, hp, extVars>>

\* `await this.branchExists(branchName)` ends
EfbBranchExists ==
    /\ efb.pc = "branchExists"
    /\ \E out \in ApiOutcomes :
        LET e == branchExists(branches, efb.name, out)
        IN  efb' = [efb EXCEPT !.exists = e,
                               !.pc = IF e THEN "delete" ELSE "create",
                               !.log = Append(@, "branchExists")]
    /\ UNCHANGED <<watchVars, conc, reqVars, remoteVars, pubVars, hp, extVars>>

\* `await this.deleteBranch(branchName)` ends, inside try/catch
EfbDelete ==
    /\ efb.pc = "delete"
    /\ \E out \in ApiOutcomes :
        LET res  == deleteBranch(branches, efb.name, out)
            then == AfterDelete(res.threw)
        IN  /\ branches' = res.branches
            /\ leftover' = leftover \cap res.branches
            /\ efb' = [efb EXCEPT !.deleteThrew = res.threw,
                                  !.pc = IF then = "threw" THEN "done" ELSE then,
                                  !.outcome = IF then = "threw" THEN "threw" ELSE @,
                                  !.log = Append(@, "deleteBranch")]
    /\ UNCHANGED prs
    /\ UNCHANGED <<watchVars, conc, reqVars, pubVars, hp, extVars>>

\* `return this.createBranch(branchName, baseBranch)` ends
EfbCreate ==
    /\ efb.pc = "create"
    /\ \E out \in ApiOutcomes :
        LET res == createBranch(branches, efb.name, out)
        IN  /\ branches' = res.branches
            /\ efb' = [efb EXCEPT !.createThrew = res.threw,
                                  !.pc = "done",
                                  !.outcome = IF res.threw THEN "threw" ELSE "returned",
                                  !.log = Append(@, "createBranch")]
    /\ UNCHANGED <<prs, leftover>>
    /\ UNCHANGED <<watchVars, conc, reqVars, pubVars, hp, extVars>>

\* ===================================================================
\* Specifications
\* ===================================================================

\* one rename event, for every configuration, file and old path (a rename
\* changes the path)
InitWatcher ==
    /\ sites \in SiteLists
    /\ moveFile \in Files
    /\ moveOldPath \in Paths
    /\ moveOldPath # moveFile.path
    /\ action = Pending
    /\ ReqIdle /\ RemoteIdle /\ PubIdle /\ EfbIdle /\ ConcIdle /\ HandlerIdle /\ ExtIdle

NextWatcher == HandleFileMove

SpecWatcher == InitWatcher /\ [][NextWatcher]_vars

\* one rename event by the user and the moves the plugin makes after it
NextFollowUp == HandleFileMove \/ FollowUpMove

SpecFollowUp == InitWatcher /\ [][NextFollowUp]_vars

\* one call of GitHubClient.request
InitRequest ==
    /\ WatchIdle /\ ReqStarted /\ RemoteIdle /\ PubIdle /\ EfbIdle /\ ConcIdle /\ HandlerIdle /\ ExtIdle

NextRequest == RequestAttempt \/ RequestSleep

SpecRequest == InitRequest /\ [][NextRequest]_vars

\* publish()/unpublish() invocations, one after the other, on one repository
InitPublish ==
    /\ sites = <<Site1>>
    /\ moveFile = NoFile
    /\ moveOldPath = <<>>
    /\ action = NoAction
    /\ ReqIdle /\ RemoteIdle /\ EfbIdle /\ ConcIdle /\ HandlerIdle /\ ExtIdle
    /\ token \in BOOLEAN
    /\ run = NoRun
    /\ callLog = <<>>
    /\ runs = 0

NextWorkflows ==
    \/ PublishCall \/ PublishValidate \/ PublishRead \/ PublishCreateBranch
    \/ PublishUploadPost \/ PublishAsset \/ PublishCreatePR \/ PublishMerge
    \/ PublishDeleteBranch \/ PublishAddLabels
    \/ UnpublishCall \/ UnpublishListPosts \/ UnpublishCreateBranch
    \/ UnpublishDeletePost \/ UnpublishListAssets \/ UnpublishDeleteAsset
    \/ UnpublishCreatePR \/ UnpublishMerge \/ UnpublishDeleteBranch

NextPublish == NextWorkflows \/ HandlePublishResult \/ RenameNotHandled

SpecPublish == InitPublish /\ [][NextPublish]_vars

\* invocations on a well-formed repository, with a token that is removed at
\* some moment
InitLogout ==
    /\ sites = <<Site1>>
    /\ moveFile = NoFile
    /\ moveOldPath = <<>>
    /\ action = NoAction
    /\ ReqIdle /\ RemoteIdle /\ EfbIdle /\ ConcIdle /\ HandlerIdle /\ ExtIdle
    /\ token = TRUE
    /\ run = NoRun
    /\ callLog = <<>>
    /\ runs = 0

NextLogout == NextWorkflows \/ HandlePublishResult \/ ClearToken \/ ValidateToken

SpecLogout == InitLogout /\ [][NextLogout]_vars

\* two invocations that overlap, with a token, on one repository
InitConcurrent ==
    /\ sites = <<Site1>>
    /\ moveFile = NoFile
    /\ moveOldPath = <<>>
    /\ action = NoAction
    /\ ReqIdle /\ RemoteIdle /\ EfbIdle /\ HandlerIdle /\ ExtIdle
    /\ token = TRUE
    /\ run = NoRun
    /\ callLog = <<>>
    /\ runs = 0
    /\ conc = [NoConc EXCEPT !.on = TRUE]

NextConcurrent == NextWorkflows \/ ConcSwitch

SpecConcurrent == InitConcurrent /\ [][NextConcurrent]_vars

\* ensureFreshBranch() calls on a repository holding any of the branches
InitClient ==
    /\ WatchIdle /\ ReqIdle /\ PubIdle /\ EfbIdle /\ ConcIdle /\ HandlerIdle /\ ExtIdle
    /\ branches \in SUBSET EfbBranchNames
    /\ prs = <<>>
    /\ leftover = {}

NextClient == EfbCall \/ EfbBranchExists \/ EfbDelete \/ EfbCreate

SpecClient == InitClient /\ [][NextClient]_vars

\* createBranch's POST of a ref that does not exist yet
InitCreateRef ==
    /\ WatchIdle /\ ReqStarted /\ RemoteIdle /\ PubIdle /\ EfbIdle /\ ConcIdle
    /\ HandlerIdle /\ ExtIdle

NextCreateRef == CreateRefAttempt \/ RequestSleep

SpecCreateRef == InitCreateRef /\ [][NextCreateRef]_vars

\* one device-flow login, from the call of waitForAuthorization
InitOAuth ==
    /\ WatchIdle /\ ReqIdle /\ RemoteIdle /\ PubIdle /\ EfbIdle /\ ConcIdle
    /\ HandlerIdle /\ UrlIdle /\ SlugIdle
    /\ OAuthStarted

NextOAuth == ModalCancel \/ OAuthLoopTest \/ OAuthSleep \/ OAuthPoll

SpecOAuth == InitOAuth /\ [][NextOAuth]_vars

\* the timer of sleep() fires and the request of pollForToken settles, and
\* the continuation that waits for either then runs
SpecOAuthFair ==
    /\ SpecOAuth
    /\ WF_vars(OAuthLoopTest) /\ WF_vars(OAuthSleep) /\ WF_vars(OAuthPoll)

\* the derivation of one live URL
InitLiveUrl ==
    /\ WatchIdle /\ ReqIdle /\ RemoteIdle /\ PubIdle /\ EfbIdle /\ ConcIdle
    /\ HandlerIdle /\ OAuthIdle /\ SlugIdle
    /\ DerivationStarted

NextLiveUrl == DeriveLiveUrl

SpecLiveUrl == InitLiveUrl /\ [][NextLiveUrl]_vars

\* slugify applied twice to one name
InitSlugify ==
    /\ WatchIdle /\ ReqIdle /\ RemoteIdle /\ PubIdle /\ EfbIdle /\ ConcIdle
    /\ HandlerIdle /\ OAuthIdle /\ UrlIdle
    /\ SlugStarted

NextSlugify == SlugifyOnce \/ SlugifyTwice

SpecSlugify == InitSlugify /\ [][NextSlugify]_vars

\* the whole model
Init ==
    \/ InitWatcher \/ InitRequest \/ InitPublish \/ InitConcurrent
    \/ InitClient \/ InitLiveUrl \/ InitOAuth \/ InitSlugify
    \/ InitCreateRef \/ InitLogout

Next ==
    \/ NextWatcher \/ NextRequest \/ NextPublish \/ NextConcurrent
    \/ NextClient \/ NextLiveUrl \/ NextOAuth \/ NextSlugify
    \/ NextCreateRef \/ NextLogout \/ NextFollowUp

Spec == Init /\ [][Next]_vars

\* ===================================================================
\* Properties
\* ===================================================================

\* `root` is `path` or a directory above it
InsideRoot(path, root) ==
    Len(path) >= Len(root) /\ SubSeq(path, 1, Len(root)) = root

\* `path` lies in the directory `folder` directly below `root`
InFolderOf(path, root, folder) ==
    /\ Len(path) > Len(root) + 1
    /\ SubSeq(path, 1, Len(root)) = root
    /\ path[Len(root) + 1] = folder

\* C1 (sync protection): a rename event whose old path is inside no
\* configured site's root folder, no site being configured included, is
\* answered with the action `none`, whatever the new path is.
C1_SyncProtection ==
    ( /\ action # Pending
      /\ \A i \in 1..Len(sites) : ~InsideRoot(moveOldPath, sites[i].vaultPath) )
    => action = NoAction

\* C1 witness: a markdown file arrives in a site's ready-to-publish-now
\* folder from a path outside every site, and nothing is triggered
C1_Witness ==
    /\ action = NoAction
    /\ sites = <<Site1, Site2>>
    /\ IsMarkdownFile(moveFile)
    /\ moveOldPath = <<"elsewhere", "unpublished", "post">>
    /\ moveFile.path = Vault1 \o <<"ready-to-publish-now", "post">>

\* the transition table of the specification, first match first
TableIntent(o, n, file, site) ==
    CASE o = "PUBLISHED" /\ n = "READY_TO_PUBLISH_SCHEDULED" ->
            [type |-> "update", file |-> file, site |-> site, immediate |-> FALSE]
      [] o = "PUBLISHED" /\ n = "READY_TO_PUBLISH_NOW" ->
            [type |-> "update", file |-> file, site |-> site, immediate |-> TRUE]
      [] o = "PUBLISHED" /\ n = "UNPUBLISHED" ->
            [type |-> "unpublish", file |-> file, site |-> site]
      [] o = "READY_TO_PUBLISH_SCHEDULED" /\ n = "UNPUBLISHED" ->
            [type |-> "withdraw", file |-> file, site |-> site]
      [] o # "PUBLISHED" /\ n = "READY_TO_PUBLISH_SCHEDULED" ->
            [type |-> "schedule-publish", file |-> file, site |-> site]
      [] o # "PUBLISHED" /\ n = "READY_TO_PUBLISH_NOW" ->
            [type |-> "immediate-publish", file |-> file, site |-> site]
      [] OTHER -> NoAction

\* C2 (transition table): a markdown document moved between two of the four
\* named folders of one site (the only site whose root is above the two paths)
\* gets the intent of the first-match table, with the site and the flag.
C2_TransitionTable ==
    action # Pending =>
        \A i \in 1..Len(sites) : \A o, n \in FolderKeys :
            ( /\ IsMarkdownFile(moveFile)
              /\ InFolderOf(moveOldPath, sites[i].vaultPath, SITE_FOLDERS[o])
              /\ InFolderOf(moveFile.path, sites[i].vaultPath, SITE_FOLDERS[n])
              /\ \A j \in 1..Len(sites) :
                    j # i => /\ ~InsideRoot(moveOldPath, sites[j].vaultPath)
                             /\ ~InsideRoot(moveFile.path, sites[j].vaultPath) )
            => action = TableIntent(o, n, moveFile, sites[i])

\* C2 witness: published -> ready-to-publish-scheduled is an update that is
\* not immediate
C2_Witness ==
    /\ action # Pending
    /\ action.type = "update"
    /\ ~action.immediate
    /\ sites = <<Site2, Site1>>
    /\ InFolderOf(moveOldPath, Vault1, "published")
    /\ InFolderOf(moveFile.path, Vault1, "ready-to-publish-scheduled")

MaxAttempts == DEFAULT_MAX_RETRIES + 1

\* C3 (retry bound): a request makes at most 4 HTTP attempts; when every
\* attempt fails with a retryable error it makes exactly 4 and then fails.
C3_RetryBound ==
    /\ httpCalls <= MaxAttempts
    /\ (reqPc = "threw" /\ retryable = httpCalls) => httpCalls = MaxAttempts
    /\ retryable = MaxAttempts => reqPc = "threw"

\* C3 witness: four 503 answers, then the request fails
C3_Witness ==
    /\ reqPc = "threw"
    /\ httpCalls = MaxAttempts
    /\ retryable = MaxAttempts
    /\ lastResp.kind = "http" /\ lastResp.status = 503

Is4xxNot429(resp) ==
    resp.kind = "http" /\ resp.status \in 400..499 /\ resp.status # 429

\* C4 (non-retry): an answer with a 4xx status other than 429 ends the request
\* at once with an error that embeds the status, whatever the message says;
\* as the first answer, after exactly 1 HTTP call.
C4_NonRetry ==
    Is4xxNot429(lastResp) =>
        /\ reqPc = "threw"
        /\ lastError[1] = W("GitHub API error")
        /\ lastError[2] = N(lastResp.status)
        /\ httpCalls = retryable + 1

\* C4 witness: a 404 whose message contains "timeout", as the first answer
C4_Witness ==
    /\ reqPc = "threw"
    /\ httpCalls = 1
    /\ lastResp.kind = "http" /\ lastResp.status = 404
    /\ lastResp.json.message = <<W("Request"), W("timeout")>>

Is2xx(resp) == resp.kind = "http" /\ resp.status \in 200..299

\* C5 (transparent recovery): while at most 3 attempts have failed with
\* retryable errors the request goes on, and when attempt k+1 succeeds after k
\* such failures it returns that success after exactly k+1 HTTP calls.
C5_TransparentRecovery ==
    /\ (TransientFailure(lastResp) /\ httpCalls <= DEFAULT_MAX_RETRIES)
            => reqPc \in {"sleep", "try"}
    /\ Is2xx(lastResp) => /\ reqPc = "returned"
                          /\ httpCalls = retryable + 1
                          /\ retryable <= DEFAULT_MAX_RETRIES
    /\ reqPc = "returned" => Is2xx(lastResp)

\* C5 witness: three retryable failures, then a success on the 4th call
C5_Witness ==
    /\ reqPc = "returned"
    /\ retryable = DEFAULT_MAX_RETRIES
    /\ httpCalls = MaxAttempts

\* C6 (totality), as claimed: publish and unpublish end with a result object
\* for every failure of a remote call or of the document store; the promise
\* never rejects and a failure carries an error message.
C6_Totality ==
    run.pc = "done" =>
        /\ run.outcome = "resolved"
        /\ ~run.result.success => run.result.error # ""

\* C7 (retry after partial failure), as claimed: a branch left by a prior
\* attempt that failed after creating it never makes the new attempt fail.
C7_StaleBranchHandled ==
    ~ ( /\ run.pc = "done"
        /\ run.stale
        /\ ~run.result.success
        /\ run.result.error = ErrRefExists )

InLog(op) == \E k \in 1..Len(efb.log) : efb.log[k] = op

C9_PreflightNoCalls ==
    /\ (run.op # "none" /\ ~token) =>
            /\ callLog = <<>>
            /\ run.pc = "done" /\ run.result.error = ErrNoAuth
    /\ run.fm = "invalid" =>
            /\ callLog = <<>>
            /\ run.pc = "done" /\ run.result.error = ErrValidation
    /\ (run.pc = "done"
            /\ run.result.error \in {ErrNoAuth, ErrValidation, ErrInvalidRepo})
        => callLog = <<>>

\* C9 witness: after an earlier invocation that made remote calls, a publish
\* fails on the repository identifier "o/" without a call
C9_Witness ==
    /\ run.op = "publish"
    /\ run.pc = "done"
    /\ run.result.error = ErrInvalidRepo
    /\ run.site.githubRepo = <<"o", "/">>
    /\ callLog = <<>>
    /\ branches # {}

Called(op) == { k \in 1..Len(callLog) : callLog[k].op = op }

\* C10 (scheduled versus immediate): a scheduled publish never calls
\* mergePullRequest and, when it succeeds, has put the site's scheduled label
\* on the pull request it opened; an immediate publish never calls addLabels
\* and, when it succeeds, has merged the pull request it opened.
C10_ScheduledVersusImmediate ==
    run.op = "publish" =>
        /\ ~run.flag => Called("mergePullRequest") = {}
        /\ run.flag => Called("addLabels") = {}
        /\ (run.pc = "done" /\ run.result.success /\ ~run.flag) =>
              /\ \E k \in Called("addLabels") :
                    /\ callLog[k].pr = run.pr
                    /\ callLog[k].label = run.site.scheduledLabel
              /\ prs[run.pr].head = run.branch
              /\ run.site.scheduledLabel \in prs[run.pr].labels
              /\ prs[run.pr].state = "open"
        /\ (run.pc = "done" /\ run.result.success /\ run.flag) =>
              /\ \E k \in Called("mergePullRequest") : callLog[k].pr = run.pr
              /\ prs[run.pr].head = run.branch
              /\ prs[run.pr].state = "merged"

\* C10 witness: a scheduled publish succeeded after an immediate one
C10_Witness ==
    /\ run.op = "publish"
    /\ run.pc = "done"
    /\ run.result.success
    /\ ~run.flag
    /\ run.pr = 2
    /\ prs[1].state = "merged"

\* the name up to its last ".", the whole name when it has none
NameMinusExtension(name) ==
    LET dots == { i \in 1..Len(name) : name[i] = "." }
    IN  IF dots = {} THEN name
        ELSE SubSeq(name, 1, (CHOOSE i \in dots : \A j \in dots : j <= i) - 1)

\* the name without a trailing ".md"
NameMinusDotMd(name) ==
    IF \E base \in { SubSeq(name, 1, n) : n \in 0..Len(name) } :
            name = base \o <<".", "m", "d">>
    THEN SubSeq(name, 1, Len(name) - 3)
    ELSE name

\* base is YYYY-MM-DD-<slug>
IsDatedSlug(base, slug) ==
    LET shape == <<"d", "d", "d", "d", "-", "d", "d", "-", "d", "d", "-">>
    IN  /\ Len(base) = Len(shape) + Len(slug)
        /\ \A i \in 1..Len(shape) :
              IF shape[i] = "d"
              THEN base[i] \in {"0", "1", "2", "3", "4", "5", "6", "7", "8", "9"}
              ELSE base[i] = "-"
        /\ \A i \in 1..Len(slug) : base[Len(shape) + i] = slug[i]

\* the post files unpublish has deleted, by name
DeletedPostNames ==
    { run.deleted[k][2] : k \in { j \in 1..Len(run.deleted) :
                                    run.deleted[j][1] = run.site.postsPath } }

UnpublishSucceeded ==
    run.op = "unpublish" /\ run.pc = "done" /\ run.result.success

\* C11 (unpublish selection), as claimed: the post files a successful
\* unpublish deleted are exactly the listed files whose name minus its
\* extension is the slug or YYYY-MM-DD-<slug>.
C11_SelectionAnyExtension ==
    UnpublishSucceeded =>
        DeletedPostNames =
            { run.listing[k] : k \in { j \in 1..Len(run.listing) :
                LET base == NameMinusExtension(run.listing[j])
                IN  base = run.slug \/ IsDatedSlug(base, run.slug) } }

SelectedDotMd ==
    { run.listing[k] : k \in { j \in 1..Len(run.listing) :
        LET base == NameMinusDotMd(run.listing[j])
        IN  base = run.slug \/ IsDatedSlug(base, run.slug) } }

\* C11 (unpublish selection), amended: the post files a successful unpublish
\* deleted are exactly the listed files whose name, a trailing ".md" removed,
\* is the slug or YYYY-MM-DD-<slug>; no deleteFile call in the posts path is
\* ever made for another listed file.
C11_SelectionDotMd ==
    run.op = "unpublish" =>
        /\ \A k \in 1..Len(callLog) :
              (callLog[k].op = "deleteFile" /\ callLog[k].path[1] = run.site.postsPath)
                  => callLog[k].path[2] \in SelectedDotMd
        /\ UnpublishSucceeded =>
              /\ DeletedPostNames = SelectedDotMd
              /\ \A k \in 1..Len(run.deleted) :
                    run.result.deletedFiles[k] = run.deleted[k]
              /\ Len(run.result.deletedFiles) = Len(run.deleted)

\* C11 witness: of "2025-01-15-a.md", "a.md", "b.md" the unpublish of slug
\* "a" deleted the first two
C11_Witness ==
    /\ UnpublishSucceeded
    /\ run.slug = <<"a">>
    /\ Len(run.listing) = 3
    /\ run.listing[3] = <<"b", ".", "m", "d">>
    /\ Cardinality(DeletedPostNames) = 2

\* C12 (no matching post): an unpublish whose listing holds no matching post
\* has failed with the error that names the slug and the posts path, and has
\* called nothing but the listing: no branch, no deletion, no pull request.
C12_NoMatchNoWrite ==
    (run.op = "unpublish" /\ run.listed /\ SelectedDotMd = {}) =>
        /\ run.pc = "done"
        /\ ~run.result.success
        /\ run.result.error = ErrNoPost
        /\ run.result.errorSlug = run.slug
        /\ run.result.errorPath = run.site.postsPath
        /\ run.result.deletedFiles = <<>>
        /\ \A k \in 1..Len(callLog) : callLog[k].op = "listFiles"

\* C12 witness: a listing with posts of another slug only
C12_Witness ==
    /\ run.op = "unpublish"
    /\ run.pc = "done"
    /\ run.result.error = ErrNoPost
    /\ run.slug = <<"a">>
    /\ Len(run.listing) = 3
    /\ run.listing[3] = <<"a", "-", "b", ".", "m", "d">>

\* C13 (unpublish is immediate): unpublish never calls addLabels, and when it
\* reports success it has opened a pull request for its branch and merged it.
C13_UnpublishImmediate ==
    run.op = "unpublish" =>
        /\ \A k \in 1..Len(callLog) : callLog[k].op # "addLabels"
        /\ (run.pc = "done" /\ run.result.success) =>
              /\ run.pr \in 1..Len(prs)
              /\ prs[run.pr].head = run.branch
              /\ prs[run.pr].state = "merged"
              /\ prs[run.pr].labels = {}
              /\ \E i, j \in 1..Len(callLog) :
                    /\ i < j
                    /\ callLog[i].op = "createPullRequest"
                    /\ callLog[i].branch = run.branch
                    /\ callLog[j].op = "mergePullRequest"
                    /\ callLog[j].pr = run.pr

\* C13 witness: a successful unpublish that also deleted an asset
C13_Witness ==
    /\ UnpublishSucceeded
    /\ run.flag
    /\ Len(run.deleted) > Cardinality(DeletedPostNames)
    /\ prs[run.pr].state = "merged"

\* C14 (withdraw), as claimed: once the document of a successful scheduled
\* publish has been moved from the scheduled queue back to unpublished, the
\* pull request of its publish branch is closed, not merged and not open.
C14_WithdrawClosesPR ==
    ( /\ action.type = "withdraw"
      /\ run.op = "publish" /\ ~run.flag
      /\ run.pc = "done" /\ run.result.success
      /\ run.file = action.file.basename )
    => prs[run.pr].state = "closed"

\* str is <owner>/<repo>: one slash, with something on both sides
IsOwnerSlashRepo(str) ==
    \E i \in 2..(Len(str) - 1) :
        /\ str[i] = "/"
        /\ \A j \in 1..Len(str) : j # i => str[j] # "/"

\* C19 (malformed repository identifier), as claimed: with a token and (for
\* publish) valid frontmatter, every identifier that is not two non-empty
\* segments around one slash gives the 'Invalid repository format' failure.
C19_RepoFormat ==
    ( /\ run.op # "none"
      /\ token
      /\ run.op = "publish" => run.fm = "valid"
      /\ ~IsOwnerSlashRepo(run.site.githubRepo) )
    => /\ run.pc = "done"
       /\ ~run.result.success
       /\ run.result.error = ErrInvalidRepo

\* C20 (best-effort branch cleanup): an invocation that merged its pull
\* request ends in success, and a branch deletion that failed has been
\* followed by the success result.
C20_BestEffortCleanup ==
    /\ ( /\ run.pc = "done"
         /\ run.pr \in 1..Len(prs)
         /\ prs[run.pr].state = "merged" )
       => run.result.success
    /\ run.cleanupThrew => (run.pc = "done" /\ run.result.success)

\* C20 witness: after the merge of an immediate publish the deletion failed
\* and left the branch behind; the result is success all the same
C20_Witness ==
    /\ run.op = "publish"
    /\ run.flag
    /\ run.cleanupThrew
    /\ run.branch \in branches
    /\ run.pc = "done"
    /\ run.result.success

\* site i is the only configured site whose root is above one of the two
\* paths of the rename event
OnlySite(i) ==
    \A j \in 1..Len(sites) :
        j # i => /\ ~InsideRoot(moveOldPath, sites[j].vaultPath)
                 /\ ~InsideRoot(moveFile.path, sites[j].vaultPath)

\* C16 (same-folder renames), as claimed: a markdown document whose old and
\* new paths lie in the same named folder of the same site gets the intent
\* `none`, for each of the four folders.
C16_SameFolderIgnored ==
    action # Pending =>
        \A i \in 1..Len(sites) : \A f \in FolderKeys :
            ( /\ IsMarkdownFile(moveFile)
              /\ InFolderOf(moveOldPath, sites[i].vaultPath, SITE_FOLDERS[f])
              /\ InFolderOf(moveFile.path, sites[i].vaultPath, SITE_FOLDERS[f])
              /\ OnlySite(i) )
            => action = NoAction

\* `path` is the root or below it, but in none of the four named folders
InNoNamedFolder(path, root) ==
    /\ InsideRoot(path, root)
    /\ \A f \in FolderKeys : ~InFolderOf(path, root, SITE_FOLDERS[f])

\* C17 (wildcard origin), as claimed: a markdown document moved from inside a
\* site's root but from none of the four named folders into the scheduled
\* queue gets schedule-publish, and into the immediate queue immediate-publish.
C17_WildcardOrigin ==
    action # Pending =>
        \A i \in 1..Len(sites) :
            ( /\ IsMarkdownFile(moveFile)
              /\ InNoNamedFolder(moveOldPath, sites[i].vaultPath)
              /\ OnlySite(i) )
            => /\ InFolderOf(moveFile.path, sites[i].vaultPath,
                             SITE_FOLDERS.READY_TO_PUBLISH_SCHEDULED)
                    => action = [type |-> "schedule-publish", file |-> moveFile,
                                 site |-> sites[i]]
               /\ InFolderOf(moveFile.path, sites[i].vaultPath,
                             SITE_FOLDERS.READY_TO_PUBLISH_NOW)
                    => action = [type |-> "immediate-publish", file |-> moveFile,
                                 site |-> sites[i]]

\* C17 (wildcard origin), amended: a markdown document moved from inside a
\* site's root but from none of the four named folders gets the intent `none`
\* wherever it is moved to, the two queues included.
C17_UnnamedOriginIgnored ==
    action # Pending =>
        \A i \in 1..Len(sites) :
            ( /\ IsMarkdownFile(moveFile)
              /\ InNoNamedFolder(moveOldPath, sites[i].vaultPath)
              /\ OnlySite(i) )
            => action = NoAction

\* C17 witness: from drafts/ of site 1 into its ready-to-publish-now/
C17_Witness ==
    /\ action = NoAction
    /\ sites = <<Site1, Site2>>
    /\ IsMarkdownFile(moveFile)
    /\ moveOldPath = Vault1 \o <<"drafts", "post">>
    /\ moveFile.path = Vault1 \o <<"ready-to-publish-now", "post">>

\* site i has the longest root among the sites whose root is above `path`
LongestRootSite(path, i) ==
    /\ InsideRoot(path, sites[i].vaultPath)
    /\ \A j \in 1..Len(sites) :
          InsideRoot(path, sites[j].vaultPath)
              => Len(sites[j].vaultPath) <= Len(sites[i].vaultPath)

\* C18 (site resolution), as claimed: the site a path belongs to is the one
\* with the longest root above it, in whatever order the sites are listed; a
\* move between two named folders of that site gets the table's intent for it.
C18_LongestPrefix ==
    action # Pending =>
        \A i \in 1..Len(sites) : \A o, n \in FolderKeys :
            ( /\ IsMarkdownFile(moveFile)
              /\ LongestRootSite(moveOldPath, i)
              /\ LongestRootSite(moveFile.path, i)
              /\ InFolderOf(moveOldPath, sites[i].vaultPath, SITE_FOLDERS[o])
              /\ InFolderOf(moveFile.path, sites[i].vaultPath, SITE_FOLDERS[n]) )
            => action = TableIntent(o, n, moveFile, sites[i])

\* C15 (independence of concurrent invocations), as claimed: of two
\* overlapping invocations for different documents each ends as it would have
\* alone; alone on this repository no invocation finds a branch of its name,
\* so none ends with 'Reference already exists'.
C15_Independent ==
    ( /\ conc.on
      /\ runs = 2
      /\ run.op # "none" /\ conc.run.op # "none"
      /\ run.file # conc.run.file
      /\ run.pc = "done" )
    => run.result.error # ErrRefExists

\* ---- handlePublish

\* handlePublish has finished after a publish that succeeded
PublishHandled ==
    /\ hp.pc = "done"
    /\ run.op = "publish" /\ run.pc = "done" /\ run.result.success

DatedUrlDerived ==
    url.pc = "done" /\ url.baseUrl # NoUrl /\ url.fmDate # NoDate

C23_CancelBetweenPolls ==
    [][ /\ ( oauth.hasOnCancel /\ oauth'.polls = oauth.polls + 1 )
            => oauth.evalsSincePoll >= 1
        /\ oauth'.lastEval = "true"
            => oauth'.outcome = "threw" /\ oauth'.code = "cancelled"
        /\ oauth.lastEval = "true" => oauth'.polls = oauth.polls ]_vars

\* the modal was closed after the first poll and the flow ended as cancelled
C23_Witness ==
    /\ oauth.polls >= 1
    /\ oauth.lastEval = "true"
    /\ oauth.outcome = "threw" /\ oauth.code = "cancelled"

\* ---- slugify

\* C24: slugify(slugify(x)) = slugify(x) for every name x, and
\* slugify("My Post Title!") = "my-post-title"
C24_SlugifyIdempotent ==
    /\ sl.pc = "twice" => sl.twice = sl.once
    /\ ( sl.pc \in {"once", "twice"} /\ sl.x = MyPostTitle )
        => sl.once = <<"m", "y", "-", "p", "o", "s", "t", "-",
                       "t", "i", "t", "l", "e">>

\* slugify was applied twice to a name that it changes: "A.md" gives "a"
C24_Witness ==
    /\ sl.pc = "twice"
    /\ sl.x = <<"A", ".", "m", "d">>
    /\ sl.once = <<"a">>

\* ---- order of the remote calls of publish

RECURSIVE FoundAssets(_)
\* the assets of the list that findAssetFile finds, in list order
FoundAssets(assets) ==
    IF assets = <<>> THEN <<>>
    ELSE (IF assets[1].found THEN <<assets[1]>> ELSE <<>>)
         \o FoundAssets(Tail(assets))

\* the calls a publish run makes when every one of them succeeds
ExpectedCalls(r) ==
    LET branch == BranchName("publish", r.slug)
        found  == FoundAssets(r.assets)
    IN  << [Call("createBranch") EXCEPT !.branch = branch,
                                        !.base = r.site.baseBranch],
           [Call("createOrUpdateFile") EXCEPT
                !.branch = branch, !.path = <<r.site.postsPath, r.slug>>] >>
        \o [i \in 1..Len(found) |->
                [Call("createOrUpdateFile") EXCEPT
                    !.branch = branch,
                    !.path = <<r.site.assetsPath, found[i].filename>>]]
        \o << [Call("createPullRequest") EXCEPT !.branch = branch,
                                                !.base = r.site.baseBranch] >>
        \o ( IF r.flag
             THEN << [Call("mergePullRequest") EXCEPT !.pr = r.pr],
                     [Call("deleteBranch") EXCEPT !.branch = branch] >>
             ELSE << [Call("addLabels") EXCEPT !.pr = r.pr,
                                               !.label = r.site.scheduledLabel] >> )

IsPrefix(s, t) == Len(s) <= Len(t) /\ SubSeq(t, 1, Len(s)) = s

\* the calls of a log without their outcomes
Calls(log) == [k \in 1..Len(log) |-> [log[k] EXCEPT !.threw = FALSE]]

\* C25: the remote calls of a publish run are, in this order, create branch,
\* upload the document, upload each found asset in list order, open the pull
\* request, then merge and delete the branch (immediate) or add the label
\* (scheduled); and a call is made only when none of the calls before it
\* failed
C25_StepOrder ==
    [][ /\ run'.op = "publish" => IsPrefix(Calls(callLog'), ExpectedCalls(run'))
        /\ ( run.op = "publish" /\ Len(callLog') > Len(callLog) )
            => \A k \in 1..Len(callLog) : ~callLog[k].threw ]_vars

\* an immediate publish with a missing and a found asset made all its calls
C25_Witness ==
    /\ run.op = "publish" /\ run.flag /\ run.pc = "done"
    /\ Len(run.assets) = 2
    /\ callLog = ExpectedCalls(run)
    /\ Len(callLog) = 6

\* ---- failures after the operation branch was created

\* the operation branch was created by a call before the j-th one
CreatedBefore(j) ==
    \E k \in 1..(j - 1) : callLog[k].op = "createBranch" /\ ~callLog[k].threw

\* the calls whose failure the workflows swallow: the final branch deletion,
\* and in unpublish the listing and the deletions of the assets
BestEffortCall(c) ==
    \/ c.op = "deleteBranch"
    \/ /\ run.op = "unpublish"
       /\ c.op \in {"listFiles", "deleteFile"}
       /\ c.path[1] = run.site.assetsPath

\* the failed run has undone nothing: it called neither deleteBranch nor
\* closePullRequest, its branch is there and a pull request it opened is open
NothingUndone ==
    /\ Called("deleteBranch") = {} /\ Called("closePullRequest") = {}
    /\ run.branch \in branches
    /\ run.pr # 0 => prs[run.pr].state = "open"

\* the j-th call ended the run with a failure result and nothing was undone
EndedInFailure(j) ==
    /\ j = Len(callLog)
    /\ run.pc = "done" /\ run.outcome = "resolved" /\ ~run.result.success
    /\ NothingUndone

\* every failed call made after the branch was created ended the run
AnyFailureEndsRun ==
    \A j \in 1..Len(callLog) :
        ( callLog[j].threw /\ CreatedBefore(j) ) => EndedInFailure(j)

\* the same for the calls that are not best-effort
FailureEndsRun ==
    \A j \in 1..Len(callLog) :
        ( callLog[j].threw /\ CreatedBefore(j) /\ ~BestEffortCall(callLog[j]) )
            => EndedInFailure(j)

\* C26 as stated: whenever a call fails after the operation branch was
\* created, the run returns a failure result, makes no further call and
\* undoes nothing
C26_NoRollbackAnyStep ==
    [][ /\ AnyFailureEndsRun'
        /\ ( run.pc = "done" /\ callLog' # callLog ) => callLog' = <<>> ]_vars

\* C26, amended: whenever a call other than the best-effort ones (the final
\* branch deletion; in unpublish the listing and deletion of assets) fails
\* after the operation branch was created, the run returns a failure result,
\* makes no further call and undoes nothing: the branch stays, a pull request
\* it opened stays open, and neither deleteBranch nor closePullRequest is
\* called; a finished run makes no call
C26_NoRollback ==
    [][ /\ FailureEndsRun'
        /\ ( run.pc = "done" /\ callLog' # callLog ) => callLog' = <<>> ]_vars

\* an immediate publish failed at the merge, after it had opened the pull
\* request: the branch and the open pull request are left on the remote
C26_Witness ==
    /\ run.op = "publish" /\ run.pc = "done" /\ ~run.result.success
    /\ Len(callLog) >= 4
    /\ callLog[Len(callLog)].op = "mergePullRequest"
    /\ callLog[Len(callLog)].threw
    /\ run.branch \in branches
    /\ prs[run.pr].state = "open"

\* ---- asset uploads of publish

\* the call uploads an asset of the run
IsAssetUpload(c) ==
    c.op = "createOrUpdateFile" /\ c.path[1] = run.site.assetsPath

\* C27: in publish, an attachment that is not found locally and an asset
\* upload that fails remotely are both skipped: a failed asset upload does
\* not end the run, and a run all of whose other calls succeed opens the
\* pull request and returns success
C27_AssetBestEffort ==
    ( run.op = "publish" /\ run.pc = "done" /\ run.outcome = "resolved"
      /\ Len(callLog) >= 2 /\ run.result.error # ErrVault
      /\ \A k \in 1..Len(callLog) : callLog[k].threw => IsAssetUpload(callLog[k]) )
    => /\ run.result.success
       /\ Called("createPullRequest") # {}

\* ---- a response that is lost

\* C28: a request of createBranch that created its ref on the repository
\* does not end in a thrown error: when the answer to an attempt is lost
\* and the client retries, the request still returns
C28_LostResponseRetry ==
    reqPc = "threw" => RefTarget \notin branches

\* ---- the branch that file writes go to

\* the operation branch of the run: publish/<slug> or unpublish/<slug>
OperationBranch ==
    [prefix |-> run.op, slug |-> slugify(run.file)]

\* C29: every createOrUpdateFile and deleteFile call of publish and of
\* unpublish names the operation branch, publish/<slug> or unpublish/<slug>,
\* and no base branch; the only call that changes the base branch is
\* mergePullRequest (createBranch and createPullRequest name the base branch
\* as the source and the target of the operation branch, listFiles reads it)
C29_BaseNeverWritten ==
    \A k \in 1..Len(callLog) :
        /\ callLog[k].op \in {"createOrUpdateFile", "deleteFile"}
            => /\ callLog[k].branch = OperationBranch
               /\ callLog[k].base = ""
        /\ callLog[k].base # ""
            => callLog[k].op \in {"createBranch", "createPullRequest", "listFiles"}

\* an unpublish deleted a post and an asset on unpublish/<slug>
C29_Witness ==
    /\ run.op = "unpublish"
    /\ Cardinality(Called("deleteFile")) >= 2
    /\ run.result.success

\* ---- the token removed during a publish

\* C30: a publish during whose frontmatter validation the token was removed
\* (and whose document could be read) ends with a result object and without
\* a remote call: its promise is not rejected
C30_TokenClearedMidPublish ==
    ( run.op = "publish" /\ run.loggedOutAt = "validate" /\ run.pc = "done"
      /\ run.result.error # ErrVault )
    => /\ run.outcome = "resolved"
       /\ callLog = <<>>

\* ---- the plugin's own moves

\* C31: the rename event raised by a move the plugin makes itself (to
\* published/ or back to unpublished/, of a document the user has not moved
\* since) starts no publish, update or unpublish handler
C31_NoFeedbackLoop ==
    (hp.pc = "moved" /\ action # Pending) => listenerHandler(action) = "none"

\* a scheduled publish failed validation, the document went back to
\* unpublished/, and the listener classified that move as a withdraw
C31_Witness ==
    /\ hp.pc = "moved" /\ hp.folder = SITE_FOLDERS.UNPUBLISHED
    /\ action # Pending
    /\ action.type = "withdraw"

\* ---- the assets unpublish deletes

\* C32: every asset an unpublish has deleted was uploaded for the post being
\* unpublished: no upload made under another slug is among the deleted files
C32_AssetDeletionConfined ==
    run.op = "unpublish"
    => \A k \in 1..Len(run.deleted) :
          run.deleted[k][1] = run.site.assetsPath
          => \A u \in Uploads :
                uniqueFilename(u.assetPrefix, u.filenameOnly) = run.deleted[k][2]
                => u.assetPrefix = run.slug

\* ---- branchExists

\* C33: branchExists answers false only for a lookup that ended in NotFound,
\* so right after it has answered false the branch is absent from the
\* repository; a lookup that failed otherwise is not reported as absence
C33_BranchExistsNotFoundOnly ==
    (efb.pc = "create" /\ efb.log = <<"branchExists">> /\ ~efb.exists)
    => efb.name \notin branches

\* ---- where the retry loop sleeps

\* C34: the loop of request sleeps exactly once between two consecutive
\* attempts and nowhere else: every attempt but the first is preceded by one
\* sleep, a sleep follows only a retryable failure of one of the first
\* DEFAULT_MAX_RETRIES attempts, the call ends (returns or throws) with one
\* sleep fewer than attempts, and the error thrown is the last attempt's
C34_BackoffPlacement ==
    /\ reqPc = "try" => sleeps = httpCalls /\ attempt = httpCalls
    /\ reqPc = "sleep" => /\ sleeps = httpCalls - 1
                          /\ attempt = httpCalls - 1
                          /\ attempt < DEFAULT_MAX_RETRIES
                          /\ isRetryableError(lastError)
    /\ reqPc \in {"returned", "threw"} => sleeps = httpCalls - 1
    /\ reqPc = "threw" => lastError = requestOnce(lastResp).message

\* the fourth attempt failed and the call threw, after three sleeps
C34_Witness ==
    /\ reqPc = "threw"
    /\ httpCalls = DEFAULT_MAX_RETRIES + 1
    /\ sleeps = DEFAULT_MAX_RETRIES

\* ---- unpublish when the assets directory cannot be listed

\* the k-th call of the invocation is the listing of the assets directory
\* and it failed
AssetListingFailedAt(k) ==
    /\ callLog[k].op = "listFiles"
    /\ callLog[k].path = <<run.site.assetsPath>>
    /\ callLog[k].threw

\* no call after the k-th failed, the deletion of the branch aside
NoLaterFailure(k) ==
    \A j \in (k + 1)..Len(callLog) :
        callLog[j].threw => callLog[j].op = "deleteBranch"

\* C35: an unpublish whose listing of the assets directory failed goes on
\* with the pull request: the next call opens it, and when the remaining
\* steps succeed the pull request is merged and the result is a success
\* whose deletedFiles are the paths of the posts that were deleted
C35_AssetListingFailureSwallowed ==
    \A k \in 1..Len(callLog) :
        (run.op = "unpublish" /\ AssetListingFailedAt(k))
        => /\ Len(callLog) = k => run.pc = "createPR"
           /\ Len(callLog) > k => callLog[k + 1].op = "createPullRequest"
           /\ (run.pc = "done" /\ NoLaterFailure(k))
              => /\ run.result.success
                 /\ prs[run.pr].state = "merged"
                 /\ run.result.deletedFiles = run.deleted
                 /\ Len(run.deleted) = Len(run.posts)
                 /\ \A j \in 1..Len(run.deleted) :
                       run.deleted[j] = <<run.site.postsPath, run.posts[j]>>

\* the listing failed and the unpublish ended in success with one post deleted
C35_Witness ==
    /\ run.op = "unpublish" /\ run.pc = "done" /\ run.result.success
    /\ \E k \in 1..Len(callLog) : AssetListingFailedAt(k)
    /\ Len(run.result.deletedFiles) = 1

\* ---- handlePublish after a failure

\* handlePublish has finished after a publish that returned a failure
FailureHandled ==
    /\ hp.pc = "done"
    /\ run.op = "publish" /\ run.pc = "done" /\ ~run.result.success

\* C36 as stated: once handlePublish has finished after a failed publish,
\* the document is in unpublished/ if and only if the failure carries an
\* invalid ValidationResult
C36_MovedBackIffInvalid ==
    FailureHandled =>
        (hp.folder = SITE_FOLDERS.UNPUBLISHED <=> run.result.validationResult)

\* C36, amended: once handlePublish has finished after a failed publish, the
\* document is in unpublished/ exactly when the failure carries an invalid
\* ValidationResult and the rename did not fail; otherwise it is still in
\* the ready-to-publish folder the user moved it into
C36_MovedBackUnlessRenameFails ==
    FailureHandled =>
        IF run.result.validationResult /\ ~hp.renameThrew
        THEN hp.folder = SITE_FOLDERS.UNPUBLISHED
        ELSE hp.folder = ReadyFolder(run.flag)

\* an immediate publish failed validation and its document went back to
\* unpublished/
C36_Witness ==
    /\ FailureHandled
    /\ run.flag
    /\ run.result.validationResult /\ ~hp.renameThrew
    /\ hp.folder = SITE_FOLDERS.UNPUBLISHED

\* ---- the site an intent carries

\* site i is the first configured site whose root is above the old path
OwnsOldPath(i) ==
    /\ InsideRoot(moveOldPath, sites[i].vaultPath)
    /\ \A j \in 1..(i - 1) : ~InsideRoot(moveOldPath, sites[j].vaultPath)

\* sites i and j are the only sites above the old and the new path
OldAndNewSite(i, j) ==
    /\ i # j
    /\ \A k \in 1..Len(sites) :
          /\ InsideRoot(moveOldPath, sites[k].vaultPath) <=> k = i
          /\ InsideRoot(moveFile.path, sites[k].vaultPath) <=> k = j

\* C37: every intent other than none carries the site that owns the old
\* path; a move from a named folder of one site into a named folder of
\* another site gets the intent of the table for the old folder, read against
\* the old site, and the new folder, read against the new site, and that
\* intent is addressed to the old site
C37_IntentSite ==
    action # Pending =>
        /\ action # NoAction
           => \E i \in 1..Len(sites) : OwnsOldPath(i) /\ action.site = sites[i]
        /\ \A i, j \in 1..Len(sites) : \A o, n \in FolderKeys :
            ( /\ IsMarkdownFile(moveFile)
              /\ OldAndNewSite(i, j)
              /\ InFolderOf(moveOldPath, sites[i].vaultPath, SITE_FOLDERS[o])
              /\ InFolderOf(moveFile.path, sites[j].vaultPath, SITE_FOLDERS[n]) )
            => action = TableIntent(o, n, moveFile, sites[i])

\* a document moved from unpublished/ of site 1 into ready-to-publish-now/
\* of site 2 is published to site 1
C37_Witness ==
    /\ sites = <<Site2, Site1>>
    /\ moveOldPath = Vault1 \o <<"unpublished", "post">>
    /\ moveFile.path = Vault2 \o <<"ready-to-publish-now", "post">>
    /\ action # Pending
    /\ action.type = "immediate-publish"
    /\ action.site = Site1

\* ---- the token check at startup

\* C38: the startup check removes the stored token only when GitHub has
\* rejected it (401); after a 5xx answer or a network failure of the check
\* the token is still stored
C38_StartupClearsOnlyInvalid ==
    run.loggedOutAt = "startup"
    => lastResp.kind = "http" /\ lastResp.status = 401

\* ---- a login that was cancelled

\* C39: once the cancel predicate of waitForAuthorization is true, no step
\* of the flow issues another token poll, and the flow ends in no other way
\* than by throwing OAuthError with code 'cancelled': it returns no token
C39_CancelledNeverYieldsToken ==
    [][ ( oauth.hasOnCancel /\ oauth.cancelled )
        => /\ oauth'.polls = oauth.polls
           /\ oauth'.pc = "done"
              => oauth'.outcome = "threw" /\ oauth'.code = "cancelled" ]_vars

\* ---- the end of the login polling

\* C40: whatever the server answers (authorization_pending, slow_down,
\* unknown or empty responses), waitForAuthorization polls no more often
\* than fits in expiresIn seconds and eventually ends: it returns a token or
\* throws, with code 'timeout' when the time is up
C40_LoginTerminates ==
    /\ [](oauth.polls <= MaxPolls)
    /\ <>(oauth.pc = "done" /\ oauth.outcome \in {"returned", "threw"})
    /\ []((oauth.pc = "loop" /\ oauth.polls = MaxPolls)
            => <>(oauth.outcome = "threw" /\ oauth.code = "timeout"))

\* every poll was answered with a request to go on and the flow timed out
C40_Witness ==
    /\ oauth.pc = "done"
    /\ oauth.outcome = "threw" /\ oauth.code = "timeout"
    /\ oauth.polls = MaxPolls
    /\ oauth.slowed

====
